---- MODULE Spec2Model ----
(***************************************************************************)
(* A model of the GLSL constant evaluation engine of Blaze4D               *)
(* (core/natives/src/renderer/emulator/glsl/const_eval.rs): the shaped     *)
(* value algebra, the overload dispatcher, the built-in operator and       *)
(* constructor tables and the expression propagator const_propagate_expr.  *)
(*                                                                         *)
(* Representation.  Every family of values is a record with one fixed set  *)
(* of fields, so that any two values of a family can be compared:          *)
(*   Expr          [k, op, n, ch]   kind, operator or name, literal, kids  *)
(*   ConstVal      [k, ty, shape, el, ent]                                 *)
(*   result        [t, v, e, err]   Const(v) | Expr(e) | Err(err) | Abort  *)
(* bool elements are 0 / 1; f32 and f64 elements are restricted to         *)
(* integral values (exactly representable in both formats) and are held as *)
(* integers; i32 and u32 keep their width (arithmetic modulo 2^32).        *)
(* A panic of the Rust code (todo!(), unwrap on None, "Implicit cast       *)
(* failed") is the result Abort: the call does not return.                 *)
(***************************************************************************)
EXTENDS Integers, Sequences, FiniteSets, TLC

VARIABLES
    expr,       \* const_propagate_expr: the expression handed in
    cl,         \* const_propagate_expr: the ConstLookup handed in
    result,     \* const_propagate_expr: what the call produced
    pc,         \* "ready" before the call, "done" after it
    overloads,  \* ConstEvalFunctionBuilder.overloads / ConstEvalFunction.overloads
    built,      \* whether build() has run (overloads is then the boxed slice)
    params,     \* ConstEvalFunction::eval: the argument values of the last call
    calls,      \* ConstEvalFunction::eval: indices of the instances it invoked, in order
    evalres,    \* ConstEvalFunction::eval: what the last call produced
    overflow_checks,  \* whether the build panics on integer overflow (debug) or wraps
    array,      \* ConstArray::get: the array (dims and the flat data)
    indices,    \* ConstArray::get: the indices handed in
    element,    \* ConstArray::get: what the call returned
    ord,        \* the cast_cmp functions: what the comparisons returned
    trace,      \* ScopedConstLookup / run_worker: the calls made, the tasks received
    worker      \* run_worker: its locals, the object pool and the shared counters

vars == <<expr, cl, result, pc, overloads, built, params, calls, evalres, overflow_checks,
          array, indices, element, ord, trace, worker>>

(***************************************************************************)
(* Base types and shapes                                                   *)
(***************************************************************************)

\* enum ParameterBaseType, in declaration order (the derived Ord)
ParameterBaseTypes == <<"Bool", "Int", "UInt", "Float", "Double">>

\* enum BaseTypeShape, in declaration order
BaseTypeShapes ==
    <<"Scalar", "Vec2", "Vec3", "Vec4",
      "Mat2", "Mat23", "Mat24", "Mat32", "Mat3", "Mat34", "Mat42", "Mat43", "Mat4">>

\* an order of the parameter shapes with the three generic shapes last
GenericShapesLast ==
    <<"Scalar", "Vec2", "Vec3", "Vec4",
      "Mat2", "Mat23", "Mat24", "Mat32", "Mat3", "Mat34", "Mat42", "Mat43", "Mat4",
      "GenericSV", "GenericM", "GenericSVM">>

\* enum ParameterShape, in declaration order (the derived Ord)
ParameterShapes ==
    <<"Scalar", "Vec2", "Vec3", "Vec4", "GenericSV",
      "Mat2", "Mat23", "Mat24", "Mat32", "Mat3", "Mat34", "Mat42", "Mat43", "Mat4",
      "GenericM", "GenericSVM">>

SeqRange(s) == {s[i] : i \in 1..Len(s)}

\* position of x in the sequence s (the discriminant of an enum variant)
IndexOf(s, x) == CHOOSE i \in 1..Len(s) : s[i] = x

is_scalar(shape) == shape = "Scalar"

is_vector(shape) == shape \in {"Vec2", "Vec3", "Vec4"}

is_matrix(shape) ==
    shape \in {"Mat2", "Mat23", "Mat24", "Mat32", "Mat3", "Mat34", "Mat42", "Mat43", "Mat4"}

\* rows of a shape: MatRC is nalgebra's R x C matrix, a vector is R x 1
ShapeRows(shape) ==
    CASE shape = "Scalar" -> 1
      [] shape \in {"Vec2", "Mat2", "Mat23", "Mat24"} -> 2
      [] shape \in {"Vec3", "Mat32", "Mat3", "Mat34"} -> 3
      [] shape \in {"Vec4", "Mat42", "Mat43", "Mat4"} -> 4

ShapeCols(shape) ==
    CASE shape \in {"Scalar", "Vec2", "Vec3", "Vec4"} -> 1
      [] shape \in {"Mat2", "Mat32", "Mat42"} -> 2
      [] shape \in {"Mat23", "Mat3", "Mat43"} -> 3
      [] shape \in {"Mat24", "Mat34", "Mat4"} -> 4

\* number of elements column_iter yields
ShapeWidth(shape) == ShapeRows(shape) * ShapeCols(shape)

VecShape(n) == CASE n = 2 -> "Vec2" [] n = 3 -> "Vec3" [] n = 4 -> "Vec4"

MatShape(r, c) ==
    CHOOSE s \in SeqRange(BaseTypeShapes) :
        is_matrix(s) /\ ShapeRows(s) = r /\ ShapeCols(s) = c

(***************************************************************************)
(* Constant values                                                         *)
(***************************************************************************)

\* Option::None where a ConstVal or ConstBaseVal is expected
NoVal == [k |-> "None", ty |-> "", shape |-> "", el |-> <<>>, ent |-> <<>>]

\* ConstVal::Base(ConstBaseVal): ty is the variant, shape the BaseTypeShape,
\* el the elements in column-major order
BaseVal(ty, shape, el) ==
    [k |-> "Base", ty |-> ty, shape |-> shape, el |-> el, ent |-> <<>>]

\* ConstVal::Struct(ConstStruct): ty names the struct, ent is entries as
\* <<name, value>> pairs with distinct names
StructVal(name, ent) ==
    [k |-> "Struct", ty |-> name, shape |-> "", el |-> <<>>, ent |-> ent]

\* ConstVal::Array(ConstArray): ty is the element type, el the dims
ArrayVal(ty, dims) ==
    [k |-> "Array", ty |-> ty, shape |-> "", el |-> dims, ent |-> <<>>]

new_int(n) == BaseVal("Int", "Scalar", <<n>>)
new_uint(n) == BaseVal("UInt", "Scalar", <<n>>)
new_bool(n) == BaseVal("Bool", "Scalar", <<n>>)
new_float(n) == BaseVal("Float", "Scalar", <<n>>)
new_double(n) == BaseVal("Double", "Scalar", <<n>>)

\* ConstVal::try_into_base
try_into_base(v) == IF v.k = "Base" THEN v ELSE NoVal

\* ConstBaseVal::type_specifier_non_array: the surface name of (ty, shape)
TypePrefix(ty) ==
    CASE ty = "Bool" -> "b" [] ty = "Int" -> "i" [] ty = "UInt" -> "u"
      [] ty = "Float" -> "" [] ty = "Double" -> "d"

ShapeSuffix(shape) ==
    CASE shape = "Vec2" -> "vec2" [] shape = "Vec3" -> "vec3" [] shape = "Vec4" -> "vec4"
      [] shape = "Mat2" -> "mat2" [] shape = "Mat23" -> "mat23" [] shape = "Mat24" -> "mat24"
      [] shape = "Mat32" -> "mat32" [] shape = "Mat3" -> "mat3" [] shape = "Mat34" -> "mat34"
      [] shape = "Mat42" -> "mat42" [] shape = "Mat43" -> "mat43" [] shape = "Mat4" -> "mat4"

ScalarName(ty) ==
    CASE ty = "Bool" -> "bool" [] ty = "Int" -> "int" [] ty = "UInt" -> "uint"
      [] ty = "Float" -> "float" [] ty = "Double" -> "double"

type_specifier_non_array(v) ==
    IF v.shape = "Scalar" THEN ScalarName(v.ty) ELSE TypePrefix(v.ty) \o ShapeSuffix(v.shape)

\* ConstVal::type_specifier
type_specifier(v) ==
    CASE v.k = "Base" -> type_specifier_non_array(v)
      [] v.k = "Array" -> v.ty \o "[]"
      [] v.k = "Struct" -> "struct " \o v.ty

\* ConstLookup for ConstStruct: entries.get(name)
struct_lookup_const(s, name) ==
    IF \E i \in 1..Len(s.ent) : s.ent[i][1] = name
    THEN s.ent[CHOOSE i \in 1..Len(s.ent) : s.ent[i][1] = name][2]
    ELSE NoVal

(***************************************************************************)
(* Scalar conversions (ScalarConstructFrom) and fixed-width arithmetic     *)
(***************************************************************************)

\* i32::MAX and i32::MIN.  An i32 is held as its value; a u32 is held as
\* the integer of [I32Min, I32Max] congruent to it modulo 2^32 (its bit
\* pattern read as two's complement), since TLC's integers are
\* 32 bits wide: 4294967292u32 is held as -4.
I32Max == 2147483647
I32Min == -I32Max - 1
Half == 65536
TwoPow24 == 16777216

\* the unsigned 16-bit halves of a 32-bit word
Lo(a) == a % Half
Hi(a) == (a \div Half) % Half

\* the word with the given halves (each reduced modulo 2^16)
FromHalves(h, l) ==
    LET hh == h % Half
    IN (IF hh >= Half \div 2 THEN hh - Half ELSE hh) * Half + (l % Half)

\* i32::wrapping_add / u32::wrapping_add on words
wrapping_add(a, b) ==
    LET l == Lo(a) + Lo(b)
    IN FromHalves(Hi(a) + Hi(b) + (l \div Half), l)

\* i32::wrapping_neg / u32::wrapping_neg on words
wrapping_neg(a) == IF a = I32Min THEN a ELSE -a

wrapping_sub(a, b) == wrapping_add(a, wrapping_neg(b))

\* x * y modulo 2^16 for x, y in 0..65535, without leaving 32 bits
MulMod16(x, y) == ((x * (y % 256)) + ((x * (y \div 256)) % 256) * 256) % Half

\* i32::wrapping_mul / u32::wrapping_mul on words
wrapping_mul(a, b) ==
    LET al == Lo(a)
        bl == Lo(b)
        p0 == al * (bl % 256)
        p1 == al * (bl \div 256)
        low == (p1 % 256) * 256 + (p0 % Half)
        high == (p1 \div 256) + (p0 \div Half) + (low \div Half)
        cross == MulMod16(Hi(a), bl) + MulMod16(al, Hi(b))
    IN FromHalves(high + cross, low)

\* unsigned comparison of two words
ULess(a, b) ==
    IF (a < 0) = (b < 0) THEN a < b ELSE b < 0

\* whether the exact result leaves the type: the arithmetic operators `+`,
\* `-`, `*` panic there when the build has overflow checks and wrap otherwise
AddOverflows(ty, a, b) ==
    IF ty = "Int"
    THEN (b > 0 /\ a > I32Max - b) \/ (b < 0 /\ a < I32Min - b)
    ELSE ULess(wrapping_add(a, b), a)

SubOverflows(ty, a, b) ==
    IF ty = "Int"
    THEN (b < 0 /\ a > I32Max + b) \/ (b > 0 /\ a < I32Min + b)
    ELSE ULess(a, b)

MulOverflows(ty, a, b) ==
    IF a = 0 \/ b = 0 THEN FALSE
    ELSE IF ty = "Int"
    THEN IF a > 0 /\ b > 0 THEN a > I32Max \div b
         ELSE IF a < 0 /\ b < 0
         THEN a = I32Min \/ b = I32Min \/ (-a) > I32Max \div (-b)
         ELSE LET pos == IF a > 0 THEN a ELSE b
                  neg == IF a > 0 THEN b ELSE a
                  q == IF I32Max % pos = pos - 1 THEN (I32Max \div pos) + 1
                       ELSE I32Max \div pos
              IN pos > 1 /\ neg < -q
    ELSE IF a < 0 THEN b # 1
    ELSE IF b < 0 THEN a # 1
    ELSE LET q == 2 * (I32Max \div b) + ((2 * (I32Max % b) + 1) \div b)
         IN b > 1 /\ a > q

Abs(v) == IF v < 0 THEN -v ELSE v

\* `as f32` on an integral value whose rounding stays within 32 bits: round
\* to nearest, ties to even, at 24 significant bits
F32Round(v) ==
    IF v = I32Min THEN v
    ELSE IF Abs(v) < TwoPow24 THEN v
    ELSE LET a == Abs(v)
             k == CHOOSE j \in 1..7 :
                     (a \div TwoPow24) < 2 ^ j /\ (a \div TwoPow24) >= 2 ^ (j - 1)
             ulp == 2 ^ k
             lo == (a \div ulp) * ulp
             rem == a - lo
             up == IF rem * 2 > ulp \/ (rem * 2 = ulp /\ (lo \div ulp) % 2 = 1)
                   THEN lo + ulp ELSE lo
         IN IF v < 0 THEN -up ELSE up

\* impl ScalarConstructFrom<from> for to.  A float is an integral value
\* below 2^31 in magnitude, so float `as i32` is the value and float
\* `as u32` saturates at 0; a u32 converted to a float is below 2^31.
construct_from(to, from, v) ==
    CASE to = "Bool" -> IF from = "Bool" THEN v ELSE IF v # 0 THEN 1 ELSE 0
      [] to = "Int" -> v
      [] to = "UInt" ->
            IF from \in {"Float", "Double"} /\ v < 0 THEN 0 ELSE v
      [] to = "Float" ->
            (CASE from \in {"Bool", "Float"} -> v
               [] from \in {"Int", "Double"} -> F32Round(v)
               [] from = "UInt" /\ v >= 0 -> F32Round(v))
      [] to = "Double" ->
            (CASE from # "UInt" -> v
               [] from = "UInt" /\ v >= 0 -> v)

(***************************************************************************)
(* Parameter types                                                         *)
(***************************************************************************)

\* the derived Ord of an enum: compare discriminants
EnumCmp(enum, a, b) ==
    IF IndexOf(enum, a) < IndexOf(enum, b) THEN "Less"
    ELSE IF IndexOf(enum, a) > IndexOf(enum, b) THEN "Greater" ELSE "Equal"

\* the derived Ord of ParameterBaseType in place of cast_cmp: bool below
\* every other base type
DeclarationOrder(a, b) == EnumCmp(ParameterBaseTypes, a, b)

\* ParameterBaseType::cast_cmp: Option<Ordering>, "None" for incomparable
ParameterBaseType_cast_cmp(a, b) ==
    IF a = b THEN "Equal"
    ELSE IF <<a, b>> \in {<<"Int", "UInt">>, <<"Int", "Float">>, <<"Int", "Double">>,
                          <<"UInt", "Float">>, <<"UInt", "Double">>, <<"Float", "Double">>}
    THEN "Less"
    ELSE IF <<a, b>> \in {<<"UInt", "Int">>, <<"Float", "Int">>, <<"Double", "Int">>,
                          <<"Float", "UInt">>, <<"Double", "UInt">>, <<"Double", "Float">>}
    THEN "Greater"
    ELSE "None"

\* a cast check that also lets a wider base type into a narrower one
CastsEitherWay(a, b) == ParameterBaseType_cast_cmp(a, b) # "None"

\* ParameterBaseType::can_cast_into
can_cast_into(a, b) == ParameterBaseType_cast_cmp(a, b) \in {"Less", "Equal"}

\* ParameterShape::matches(val: BaseTypeShape)
matches(pshape, val) ==
    CASE pshape = "Scalar" -> is_scalar(val)
      [] pshape = "GenericSV" -> is_scalar(val) \/ is_vector(val)
      [] pshape = "GenericM" -> is_vector(val)
      [] pshape = "GenericSVM" -> TRUE
      [] OTHER -> val = pshape

\* ParameterType::new
ParameterType(base_type, shape) == [base_type |-> base_type, shape |-> shape]

\* a comparison of parameter types by shape alone
ShapeOrderOnly(a, b) == EnumCmp(ParameterShapes, a.shape, b.shape)

\* ParameterType::cast_cmp: shape first (derived Ord), then base type by the
\* derived PartialOrd (always Some for a fieldless enum, so the fallback to
\* cmp never runs and both are the declaration order)
ParameterType_cast_cmp(a, b) ==
    LET shape_ord == EnumCmp(ParameterShapes, a.shape, b.shape)
    IN IF shape_ord = "Equal"
       THEN EnumCmp(ParameterBaseTypes, a.base_type, b.base_type)
       ELSE shape_ord

(***************************************************************************)
(* Function instances                                                      *)
(***************************************************************************)

\* a panic inside an evaluator: the call does not return
PanicVal(msg) == [k |-> "Panic", ty |-> msg, shape |-> "", el |-> <<>>, ent |-> <<>>]

\* ConstEvalFunctionInstance.  typed = prototype.is_some(); fn names the
\* closure, f the scalar operation it applies, ret the base type of its
\* result R, n and c the const generics of a constructor (or the tag a
\* stub closure returns)
Instance(typed, prototype, fn, f, ret, n, c) ==
    [typed |-> typed, prototype |-> prototype, fn |-> fn, f |-> f, ret |-> ret,
     n |-> n, c |-> c]

\* ConstEvalFunctionInstance::from_generic
from_generic(fn, ret, n, c) == Instance(FALSE, <<>>, fn, "", ret, n, c)

\* ConstEvalFunctionInstance::from_fn_1 for a closure taking T0
from_fn_1(t0, fn, f, ret) == Instance(TRUE, <<t0>>, fn, f, ret, 0, 0)

\* ConstEvalFunctionInstance::from_fn_2 for a closure taking (T0, T1)
from_fn_2(t0, t1, fn, f, ret) == Instance(TRUE, <<t0, t1>>, fn, f, ret, 0, 0)

\* ConstEvalFunction::eval's `types`: (get_shape(), from_const_val()) per argument
TypesOf(ps) == [i \in 1..Len(ps) |-> [shape |-> ps[i].shape, base_type |-> ps[i].ty]]

\* ConstEvalFunctionInstance::compatible_with
compatible_with(inst, types) ==
    IF inst.typed
    THEN /\ Len(types) = Len(inst.prototype)
         /\ \A i \in 1..Len(types) :
               /\ matches(inst.prototype[i].shape, types[i].shape)
               /\ can_cast_into(types[i].base_type, inst.prototype[i].base_type)
    ELSE TRUE

\* the fold of ConstEvalFunctionInstance::cast_cmp over the zipped prototypes
RECURSIVE PrototypeFold(_, _, _)
PrototypeFold(p1, p2, i) ==
    IF i > Len(p1) THEN "Equal"
    ELSE LET c == ParameterType_cast_cmp(p1[i], p2[i])
         IN IF c = "Equal" THEN PrototypeFold(p1, p2, i + 1) ELSE c

\* ConstEvalFunctionInstance::cast_cmp
cast_cmp(a, b) ==
    CASE a.typed /\ b.typed ->
            IF Len(a.prototype) < Len(b.prototype) THEN "Less"
            ELSE IF Len(a.prototype) > Len(b.prototype) THEN "Greater"
            ELSE PrototypeFold(a.prototype, b.prototype, 1)
      [] ~a.typed /\ b.typed -> "Greater"
      [] a.typed /\ ~b.typed -> "Less"
      [] OTHER -> "Equal"

\* slice::sort_by (a stable sort): each element goes behind the elements
\* before it that do not compare Greater
RECURSIVE sort_by(_)
sort_by(s) ==
    IF Len(s) <= 1 THEN s
    ELSE LET front == sort_by(SubSeq(s, 1, Len(s) - 1))
             x == s[Len(s)]
             k == Cardinality({i \in 1..Len(front) : cast_cmp(front[i], x) # "Greater"})
         IN SubSeq(front, 1, k) \o <<x>> \o SubSeq(front, k + 1, Len(front))

\* ConstEvalFunctionBuilder::build
build(ovs) == sort_by(ovs)

\* whether a value of shape val converts into the Rust type a parameter
\* shape stands for (the TryFrom impls of ConstSVVal, ConstSVMVal, ConstMVal)
ShapeConverts(pshape, val) ==
    CASE pshape = "Scalar" -> is_scalar(val)
      [] pshape = "GenericSV" -> is_scalar(val) \/ is_vector(val)
      [] pshape = "GenericM" -> is_matrix(val)
      [] pshape = "GenericSVM" -> TRUE
      [] OTHER -> val = pshape

\* the variants of ConstBaseVal each const_param_* macro accepts
BaseConverts(to, from) ==
    CASE to = "Bool" -> from = "Bool"
      [] to = "Int" -> from = "Int"
      [] to = "UInt" -> from \in {"Int", "UInt"}
      [] to = "Float" -> from \in {"Int", "UInt", "Float"}
      [] to = "Double" -> from \in {"Int", "UInt", "Float", "Double"}

\* ConstParameter::try_cast_from of the type with descriptor pt
try_cast_from(pt, val) ==
    IF BaseConverts(pt.base_type, val.ty) /\ ShapeConverts(pt.shape, val.shape)
    THEN BaseVal(pt.base_type, val.shape,
                 [i \in 1..Len(val.el) |-> construct_from(pt.base_type, val.ty, val.el[i])])
    ELSE NoVal

(***************************************************************************)
(* The closures of the built-in tables                                     *)
(***************************************************************************)

\* `a / b` on two i32 (truncating) or on two u32 words, for b # 0 and not
\* i32::MIN / -1
IntDiv(ty, a, b) ==
    IF ty = "Int"
    THEN IF b = I32Min THEN (IF a = I32Min THEN 1 ELSE 0)
         ELSE IF a = I32Min
         THEN LET q == (I32Max \div Abs(b)) + (IF I32Max % Abs(b) = Abs(b) - 1 THEN 1 ELSE 0)
              IN IF b > 0 THEN -q ELSE q
         ELSE LET q == Abs(a) \div Abs(b)
              IN IF (a < 0) = (b < 0) THEN q ELSE -q
    ELSE IF b < 0 THEN (IF ULess(a, b) THEN 0 ELSE 1)
    ELSE IF a >= 0 THEN a \div b
    ELSE LET h == (((a \div 2) + I32Max) + 1) \div b
             q0 == wrapping_add(h, h)
             rem == wrapping_sub(a, wrapping_mul(q0, b))
         IN IF ULess(rem, b) THEN q0 ELSE wrapping_add(q0, 1)

\* the scalar closure f on two elements of base type ty.  A float quotient
\* is held only where it is integral and the divisor is not zero.
ScalarBin(f, ty, a, b) ==
    CASE f = "add" -> IF ty \in {"Int", "UInt"} THEN wrapping_add(a, b)
                      ELSE IF ty = "Float" THEN F32Round(a + b) ELSE a + b
      [] f = "sub" -> IF ty \in {"Int", "UInt"} THEN wrapping_sub(a, b)
                      ELSE IF ty = "Float" THEN F32Round(a - b) ELSE a - b
      [] f = "mul" -> IF ty \in {"Int", "UInt"} THEN wrapping_mul(a, b)
                      ELSE IF ty = "Float" THEN F32Round(a * b) ELSE a * b
      [] f = "div" -> IF ty \in {"Int", "UInt"} THEN IntDiv(ty, a, b)
                      ELSE (CASE b # 0 /\ Abs(a) % Abs(b) = 0 ->
                                   IF (a < 0) = (b < 0) THEN Abs(a) \div Abs(b)
                                   ELSE -(Abs(a) \div Abs(b)))
      [] f = "or" -> IF a = 1 \/ b = 1 THEN 1 ELSE 0
      [] f = "xor" -> IF a # b THEN 1 ELSE 0
      [] f = "and" -> IF a = 1 /\ b = 1 THEN 1 ELSE 0
      [] f = "eq" -> IF a = b THEN 1 ELSE 0
      [] f = "lt" -> IF (IF ty = "UInt" THEN ULess(a, b) ELSE a < b) THEN 1 ELSE 0
      [] f = "gt" -> IF (IF ty = "UInt" THEN ULess(b, a) ELSE b < a) THEN 1 ELSE 0
      [] f = "lte" -> IF (IF ty = "UInt" THEN ULess(b, a) ELSE b < a) THEN 0 ELSE 1
      [] f = "gte" -> IF (IF ty = "UInt" THEN ULess(a, b) ELSE a < b) THEN 0 ELSE 1

\* whether f panics on (a, b): integer `+`, `-`, `*` that overflow in a
\* build with overflow checks (oc), and in every build an integer division
\* by zero or i32::MIN / -1
ScalarBinPanics(f, ty, a, b, oc) ==
    /\ ty \in {"Int", "UInt"}
    /\ CASE f = "add" -> oc /\ AddOverflows(ty, a, b)
         [] f = "sub" -> oc /\ SubOverflows(ty, a, b)
         [] f = "mul" -> oc /\ MulOverflows(ty, a, b)
         [] f = "div" -> b = 0 \/ (ty = "Int" /\ a = I32Min /\ b = -1)
         [] OTHER -> FALSE

\* the scalar closure f on one element
ScalarUn(f, ty, a) ==
    CASE f = "wrapping_neg" -> wrapping_neg(a)
      [] f = "neg" -> -a
      [] f = "not" -> -1 - a
      [] f = "not_bool" -> 1 - a

\* ConstGenericMappable::map
map(v, f, ty) == BaseVal(ty, v.shape, [i \in 1..Len(v.el) |-> ScalarUn(f, v.ty, v.el[i])])

\* the pairs of elements a two-argument closure combines, in result order:
\* map_l is a.map(|v| f(v, b)), map_r is b.map(|v| f(a, v)), mapm_r is
\* b.map(|v| f(v, a)), zip is a.zip_map(&b, f)
ClosurePairs(fn, a, b) ==
    CASE fn = "map_l" -> [i \in 1..Len(a.el) |-> <<a.el[i], b.el[1]>>]
      [] fn = "map_r" -> [i \in 1..Len(b.el) |-> <<a.el[1], b.el[i]>>]
      [] fn = "mapm_r" -> [i \in 1..Len(b.el) |-> <<b.el[i], a.el[1]>>]
      [] fn \in {"zip", "eq"} -> [i \in 1..Len(a.el) |-> <<a.el[i], b.el[i]>>]

\* element (r, c), both from 0, of a column-major value of shape sh
At(v, r, c) == v.el[c * ShapeRows(v.shape) + r + 1]

\* the sum of the elements of a sequence of numbers
RECURSIVE SumOf(_)
SumOf(s) == IF s = <<>> THEN 0 ELSE Head(s) + SumOf(Tail(s))

\* nalgebra's a * b for a matrix a (R x C) and a vector b (C): a vector of R
matvec(a, b) ==
    BaseVal(a.ty, VecShape(ShapeRows(a.shape)),
            [r \in 1..ShapeRows(a.shape) |->
                SumOf([c \in 1..ShapeCols(a.shape) |-> At(a, r - 1, c - 1) * b.el[c]])])

\* (a.transpose() * b).transpose() for a vector a (R) and a matrix b (R x C)
vecmat(a, b) ==
    BaseVal(b.ty, VecShape(ShapeCols(b.shape)),
            [c \in 1..ShapeCols(b.shape) |->
                SumOf([r \in 1..ShapeRows(b.shape) |-> a.el[r] * At(b, r - 1, c - 1)])])

\* a typed closure applied to the values try_cast_from produced
ApplyTyped(inst, a, oc) ==
    LET fn == inst.fn
        ty == inst.prototype[1].base_type
    IN CASE fn = "id" -> a[1]
         [] fn = "map" -> map(a[1], inst.f, inst.ret)
         [] fn = "some" -> new_int(inst.n)
         [] fn = "none" -> NoVal
         [] fn = "scalar" ->
               BaseVal(inst.ret, "Scalar", <<construct_from(inst.ret, a[1].ty, a[1].el[1])>>)
         [] fn = "matvec" -> matvec(a[1], a[2])
         [] fn = "vecmat" -> vecmat(a[1], a[2])
         [] fn \in {"map_l", "map_r", "mapm_r", "zip", "eq"} ->
               IF fn \in {"zip", "eq"} /\ a[1].shape # a[2].shape THEN NoVal
               ELSE LET prs == ClosurePairs(fn, a[1], a[2])
                        shape == IF fn \in {"map_r", "mapm_r"} THEN a[2].shape ELSE a[1].shape
                        els == [i \in 1..Len(prs) |-> ScalarBin(inst.f, ty, prs[i][1], prs[i][2])]
                    IN IF \E i \in 1..Len(prs) :
                              ScalarBinPanics(inst.f, ty, prs[i][1], prs[i][2], oc)
                       THEN PanicVal("attempt to compute with overflow")
                       ELSE IF fn = "eq"
                       THEN new_bool(IF \A i \in 1..Len(els) : els[i] = 1 THEN 1 ELSE 0)
                       ELSE BaseVal(inst.ret, shape, els)

\* ValIterator<T>: the elements of all params in order, each converted by
\* T::construct_from
RECURSIVE ValIterator(_, _)
ValIterator(t, ps) ==
    IF ps = <<>> THEN <<>>
    ELSE [i \in 1..Len(ps[1].el) |-> construct_from(t, ps[1].ty, ps[1].el[i])]
         \o ValIterator(t, Tail(ps))

\* a vector constructor without the single-scalar arm
VecFromStreamOnly(r, t, ps) ==
    IF Len(ValIterator(t, ps)) >= r
    THEN BaseVal(t, VecShape(r), SubSeq(ValIterator(t, ps), 1, r))
    ELSE NoVal

\* the closure add_vec_constructor::<R, T> registers
vec_constructor(r, t, ps) ==
    IF Len(ps) = 0 THEN NoVal
    ELSE IF Len(ps) = 1 /\ ps[1].shape = "Scalar"
    THEN BaseVal(t, VecShape(r), [i \in 1..r |-> ValIterator(t, ps)[1]])
    ELSE IF Len(ValIterator(t, ps)) >= r
    THEN BaseVal(t, VecShape(r), SubSeq(ValIterator(t, ps), 1, r))
    ELSE NoVal

\* the closure add_mat_constructor::<R, C, T> registers; copy_to_mat
\* overlays the top-left block of the argument on the identity
mat_constructor(r, c, t, ps) ==
    IF Len(ps) = 0 THEN NoVal
    ELSE IF Len(ps) = 1 /\ ps[1].shape = "Scalar"
    THEN BaseVal(t, MatShape(r, c),
                 [i \in 1..(r * c) |->
                     IF (i - 1) \div r = (i - 1) % r THEN ValIterator(t, ps)[1] ELSE 0])
    ELSE IF Len(ps) = 1 /\ is_matrix(ps[1].shape) /\ ps[1].ty \in {"Float", "Double"}
    THEN BaseVal(t, MatShape(r, c),
                 [i \in 1..(r * c) |->
                     LET row == (i - 1) % r
                         col == (i - 1) \div r
                     IN IF row < ShapeRows(ps[1].shape) /\ col < ShapeCols(ps[1].shape)
                        THEN construct_from(t, ps[1].ty, At(ps[1], row, col))
                        ELSE IF row = col THEN 1 ELSE 0])
    ELSE IF Len(ValIterator(t, ps)) >= r * c
    THEN BaseVal(t, MatShape(r, c), SubSeq(ValIterator(t, ps), 1, r * c))
    ELSE NoVal

\* a generic closure applied to the raw parameters
ApplyGeneric(inst, ps) ==
    CASE inst.fn = "vec" -> vec_constructor(inst.n, inst.ret, ps)
      [] inst.fn = "mat" -> mat_constructor(inst.n, inst.c, inst.ret, ps)
      [] inst.fn = "some" -> new_int(inst.n)
      [] inst.fn = "none" -> NoVal

\* ConstEvalFunctionInstance::eval: the boxed closure from_generic /
\* from_fn_0 / from_fn_1 / from_fn_2 built, with its length check and its
\* implicit casts
instance_eval(inst, ps, oc) ==
    IF ~inst.typed THEN ApplyGeneric(inst, ps)
    ELSE IF Len(ps) # Len(inst.prototype)
    THEN PanicVal("Parameter list length mismatch")
    ELSE LET cast == [i \in 1..Len(ps) |-> try_cast_from(inst.prototype[i], ps[i])]
         IN IF \E i \in 1..Len(ps) : cast[i].k = "None"
            THEN PanicVal("Implicit cast failed")
            ELSE ApplyTyped(inst, cast, oc)

\* the loop of ConstEvalFunction::eval from instance i on: res is what the
\* call produces, calls the indices of the instances it invoked
RECURSIVE eval_loop(_, _, _, _)
eval_loop(ovs, i, ps, oc) ==
    IF i > Len(ovs) THEN [res |-> NoVal, calls |-> <<>>]
    ELSE IF compatible_with(ovs[i], TypesOf(ps))
    THEN LET r == instance_eval(ovs[i], ps, oc)
         IN IF r.k = "None"
            THEN LET rest == eval_loop(ovs, i + 1, ps, oc)
                 IN [res |-> rest.res, calls |-> <<i>> \o rest.calls]
            ELSE [res |-> r, calls |-> <<i>>]
    ELSE eval_loop(ovs, i + 1, ps, oc)

\* ConstEvalFunction::eval
eval(ovs, ps, oc) == eval_loop(ovs, 1, ps, oc).res

(***************************************************************************)
(* The built-in operator tables (lazy_static) and the constructors         *)
(***************************************************************************)

\* add_sv_binop_components::<T>(func, f)
add_sv_binop_components(func, t, f) ==
    func \o <<from_fn_2(ParameterType(t, "GenericSV"), ParameterType(t, "Scalar"), "map_l", f, t),
              from_fn_2(ParameterType(t, "Scalar"), ParameterType(t, "GenericSV"), "map_r", f, t),
              from_fn_2(ParameterType(t, "GenericSV"), ParameterType(t, "GenericSV"), "zip", f, t)>>

\* add_svm_binop_components::<T>(func, f)
add_svm_binop_components(func, t, f) ==
    add_sv_binop_components(func, t, f)
    \o <<from_fn_2(ParameterType(t, "GenericM"), ParameterType(t, "Scalar"), "map_l", f, t),
         from_fn_2(ParameterType(t, "Scalar"), ParameterType(t, "GenericM"), "mapm_r", f, t),
         from_fn_2(ParameterType(t, "GenericM"), ParameterType(t, "GenericM"), "zip", f, t)>>

\* the unary tables: one closure per base type over a generic shape
UnaryOverloads(fn, fInt, fFloat, withFloat) ==
    <<from_fn_1(ParameterType("Int", "GenericSV"), fn, fInt, "Int"),
      from_fn_1(ParameterType("UInt", "GenericSV"), fn, fInt, "UInt")>>
    \o (IF withFloat
        THEN <<from_fn_1(ParameterType("Float", "GenericSVM"), fn, fFloat, "Float"),
               from_fn_1(ParameterType("Double", "GenericSVM"), fn, fFloat, "Double")>>
        ELSE <<>>)

OP_UNARY_ADD == build(UnaryOverloads("id", "", "", TRUE))

\* a table for unary minus whose closures return the operand as it is
MinusKeepsOperand == build(UnaryOverloads("id", "", "", TRUE))

OP_UNARY_MINUS == build(UnaryOverloads("map", "wrapping_neg", "neg", TRUE))

\* a table for logical not whose closure takes a bool scalar or vector
NotOnVectors ==
    build(<<from_fn_1(ParameterType("Bool", "GenericSV"), "map", "not_bool", "Bool")>>)

OP_UNARY_NOT == build(<<from_fn_1(ParameterType("Bool", "Scalar"), "map", "not_bool", "Bool")>>)

OP_UNARY_COMPLEMENT == build(UnaryOverloads("map", "not", "", FALSE))

\* OP_BINARY_OR, OP_BINARY_XOR, OP_BINARY_AND: one closure (bool, bool) -> bool
BoolOverloads(f) ==
    <<from_fn_2(ParameterType("Bool", "Scalar"), ParameterType("Bool", "Scalar"), "map_l", f, "Bool")>>

OP_BINARY_EQUAL ==
    build(<<from_fn_2(ParameterType("Bool", "GenericSV"), ParameterType("Bool", "GenericSV"), "eq", "eq", "Bool"),
            from_fn_2(ParameterType("Int", "GenericSV"), ParameterType("Int", "GenericSV"), "eq", "eq", "Bool"),
            from_fn_2(ParameterType("UInt", "GenericSV"), ParameterType("UInt", "GenericSV"), "eq", "eq", "Bool"),
            from_fn_2(ParameterType("Float", "GenericSVM"), ParameterType("Float", "GenericSVM"), "eq", "eq", "Bool"),
            from_fn_2(ParameterType("Double", "GenericSVM"), ParameterType("Double", "GenericSVM"), "eq", "eq", "Bool")>>)

\* OP_BINARY_LT, OP_BINARY_GT, OP_BINARY_LTE, OP_BINARY_GTE: one closure
\* (T, T) -> bool per numeric scalar T
CompareOverloads(f) ==
    [i \in 1..4 |->
        LET t == ParameterBaseTypes[i + 1]
        IN from_fn_2(ParameterType(t, "Scalar"), ParameterType(t, "Scalar"), "map_l", f, "Bool")]

\* OP_BINARY_ADD, OP_BINARY_SUB and OP_BINARY_DIV: i32 and u32 over scalars
\* and vectors, f32 and f64 also over matrices
ArithOverloads(f) ==
    add_svm_binop_components(
        add_svm_binop_components(
            add_sv_binop_components(add_sv_binop_components(<<>>, "Int", f), "UInt", f),
            "Float", f),
        "Double", f)

OP_BINARY_ADD == build(ArithOverloads("add"))

OP_BINARY_SUB == build(ArithOverloads("sub"))

OP_BINARY_DIV == build(ArithOverloads("div"))

\* the vector * matrix and matrix * vector overloads of OP_BINARY_MULT for
\* base type t, in registration order
ProductOverloads(t) ==
    LET VecMatPairs ==
            <<<<"Vec2", "Mat2">>, <<"Vec2", "Mat23">>, <<"Vec2", "Mat24">>,
              <<"Vec3", "Mat32">>, <<"Vec3", "Mat3">>, <<"Vec3", "Mat34">>,
              <<"Vec4", "Mat42">>, <<"Vec4", "Mat43">>, <<"Vec4", "Mat4">>>>
        MatVecPairs ==
            <<<<"Mat2", "Vec2">>, <<"Mat32", "Vec2">>, <<"Mat42", "Vec2">>,
              <<"Mat23", "Vec3">>, <<"Mat3", "Vec3">>, <<"Mat43", "Vec3">>,
              <<"Mat24", "Vec4">>, <<"Mat34", "Vec4">>, <<"Mat4", "Vec4">>>>
    IN [i \in 1..9 |->
           from_fn_2(ParameterType(t, VecMatPairs[i][1]), ParameterType(t, VecMatPairs[i][2]),
                     "vecmat", "mul", t)]
       \o [i \in 1..9 |->
           from_fn_2(ParameterType(t, MatVecPairs[i][1]), ParameterType(t, MatVecPairs[i][2]),
                     "matvec", "mul", t)]

OP_BINARY_MULT ==
    build(add_sv_binop_components(
              add_sv_binop_components(
                  add_sv_binop_components(add_sv_binop_components(<<>>, "Int", "mul"), "UInt", "mul"),
                  "Float", "mul"),
              "Double", "mul")
          \o ProductOverloads("Float") \o ProductOverloads("Double"))

\* add_scalar_constructor::<T>
add_scalar_constructor(t) ==
    [i \in 1..5 |->
        from_fn_1(ParameterType(ParameterBaseTypes[i], "GenericSV"), "scalar", "", t)]

\* BUILTIN_CONST_FUNCTIONS.get(name): overloads is the built function, found
\* whether the map has the name.  Every mat* and dmat* name is registered
\* with add_mat_constructor::<R, C, f32>.
BUILTIN_CONST_FUNCTIONS(name) ==
    IF \E t \in SeqRange(ParameterBaseTypes) : name = ScalarName(t)
    THEN [found |-> TRUE,
          overloads |-> build(add_scalar_constructor(
              CHOOSE t \in SeqRange(ParameterBaseTypes) : name = ScalarName(t)))]
    ELSE IF \E t \in SeqRange(ParameterBaseTypes), n \in 2..4 :
                name = TypePrefix(t) \o ShapeSuffix(VecShape(n))
    THEN LET tn == CHOOSE tn \in SeqRange(ParameterBaseTypes) \X (2..4) :
                       name = TypePrefix(tn[1]) \o ShapeSuffix(VecShape(tn[2]))
         IN [found |-> TRUE, overloads |-> build(<<from_generic("vec", tn[1], tn[2], 1)>>)]
    ELSE IF \E p \in {"", "d"}, sh \in SeqRange(BaseTypeShapes) :
                is_matrix(sh) /\ name = p \o ShapeSuffix(sh)
    THEN LET sh == CHOOSE sh \in SeqRange(BaseTypeShapes) :
                       is_matrix(sh) /\ name \in {ShapeSuffix(sh), "d" \o ShapeSuffix(sh)}
         IN [found |-> TRUE,
             overloads |-> build(<<from_generic("mat", "Float", ShapeRows(sh), ShapeCols(sh))>>)]
    ELSE [found |-> FALSE, overloads |-> <<>>]

(***************************************************************************)
(* Expressions (glsl::syntax::Expr), errors and propagation results        *)
(***************************************************************************)

Variable(ident) == [k |-> "Variable", op |-> ident, n |-> 0, ch |-> <<>>]
IntConst(v) == [k |-> "IntConst", op |-> "", n |-> v, ch |-> <<>>]
UIntConst(v) == [k |-> "UIntConst", op |-> "", n |-> v, ch |-> <<>>]
BoolConst(v) == [k |-> "BoolConst", op |-> "", n |-> v, ch |-> <<>>]
FloatConst(v) == [k |-> "FloatConst", op |-> "", n |-> v, ch |-> <<>>]
DoubleConst(v) == [k |-> "DoubleConst", op |-> "", n |-> v, ch |-> <<>>]
Unary(op, a) == [k |-> "Unary", op |-> op, n |-> 0, ch |-> <<a>>]
Binary(op, a, b) == [k |-> "Binary", op |-> op, n |-> 0, ch |-> <<a, b>>]
Ternary(a, b, c) == [k |-> "Ternary", op |-> "", n |-> 0, ch |-> <<a, b, c>>]
Assignment(a, op, b) == [k |-> "Assignment", op |-> op, n |-> 0, ch |-> <<a, b>>]
Bracket(a, i) == [k |-> "Bracket", op |-> "", n |-> 0, ch |-> <<a, i>>]
\* Expr::FunCall(FunIdentifier::Identifier(ident), params)
FunCall(ident, ps) == [k |-> "FunCall", op |-> ident, n |-> 0, ch |-> ps]
\* Expr::FunCall(FunIdentifier::Expr(callee), params): ch is the callee
\* followed by the params
FunCallExpr(callee, ps) == [k |-> "FunCallExpr", op |-> "", n |-> 0, ch |-> <<callee>> \o ps]
Dot(a, ident) == [k |-> "Dot", op |-> ident, n |-> 0, ch |-> <<a>>]
PostInc(a) == [k |-> "PostInc", op |-> "", n |-> 0, ch |-> <<a>>]
PostDec(a) == [k |-> "PostDec", op |-> "", n |-> 0, ch |-> <<a>>]
Comma(a, b) == [k |-> "Comma", op |-> "", n |-> 0, ch |-> <<a, b>>]

\* no expression (the e field of a result that is not Expr)
NoExpr == [k |-> "None", op |-> "", n |-> 0, ch |-> <<>>]

\* enum ConstEvalError: <<variant, operator or name, type, type>>
NoErr == <<"", "", "", "">>
UnaryOpExpectedLValue(op) == <<"UnaryOpExpectedLValue", op, "", "">>
UnknownStructureMember(name) == <<"UnknownStructureMember", name, "", "">>
DotStructureRequired == <<"DotStructureRequired", "", "", "">>
TernaryExpectedScalarBool == <<"TernaryExpectedScalarBool", "", "", "">>
AssignmentExpectedLValue == <<"AssignmentExpectedLValue", "", "", "">>
PostOpExpectedLValue == <<"PostOpExpectedLValue", "", "", "">>
IllegalExpression == <<"IllegalExpression", "", "", "">>
IllegalUnaryOperand(op, ty) == <<"IllegalUnaryOperand", op, ty, "">>
IllegalBinaryOperand(op, lty, rty) == <<"IllegalBinaryOperand", op, lty, rty>>
NoMatchingFunctionOverload == <<"NoMatchingFunctionOverload", "", "", "">>

\* Result<ConstValOrExpr, ConstEvalError>, or the call panicked
OkConst(v) == [t |-> "Const", v |-> v, e |-> NoExpr, err |-> NoErr]
OkExpr(e) == [t |-> "Expr", v |-> NoVal, e |-> e, err |-> NoErr]
Err(err) == [t |-> "Err", v |-> NoVal, e |-> NoExpr, err |-> err]
Abort(msg) == [t |-> "Abort", v |-> NoVal, e |-> NoExpr, err |-> <<"panic", msg, "", "">>]

\* what the `?` operator returns early on, and what unwinds through a frame
Fails(r) == r.t \in {"Err", "Abort"}

\* ConstVal::as_expr: todo!()
ConstVal_as_expr(v) == Abort("not yet implemented")

\* impl From<ConstValOrExpr> for Expr, as a result whose e is the expression
Expr_from(r) == IF r.t = "Const" THEN ConstVal_as_expr(r.v) ELSE OkExpr(r.e)

\* a node rebuilt around the propagated children rs, each through Expr::from
\* in order: Ok(Expr::K(.., Box::new(a.into()), ..).into())
Rebuild(node, rs) ==
    LET es == [i \in 1..Len(rs) |-> Expr_from(rs[i])]
    IN IF \E i \in 1..Len(rs) : Fails(es[i])
       THEN es[CHOOSE i \in 1..Len(rs) : Fails(es[i]) /\ \A j \in 1..(i - 1) : ~Fails(es[j])]
       ELSE OkExpr([node EXCEPT !.ch = [i \in 1..Len(rs) |-> es[i].e]])

\* the first result of rs the `?` operator returns on, in order
FirstFailure(rs) ==
    rs[CHOOSE i \in 1..Len(rs) : Fails(rs[i]) /\ \A j \in 1..(i - 1) : ~Fails(rs[j])]

\* Option<ConstBaseVal> of a dispatcher into Result: .map(ConstValOrExpr::from)
\* .ok_or_else(err); a panic inside eval unwinds
FromEval(r, err) ==
    IF r.k = "Panic" THEN Abort(r.ty)
    ELSE IF r.k = "None" THEN Err(err) ELSE OkConst(r)

\* a lookup that consults the scopes from the outermost inward
lookup_outermost(scopes, ident) ==
    LET binding == {i \in 1..Len(scopes) :
                       \E k \in 1..Len(scopes[i]) : scopes[i][k][1] = ident}
        first == CHOOSE i \in binding : \A j \in binding : i <= j
    IN IF binding = {} THEN NoVal
       ELSE scopes[first][CHOOSE k \in 1..Len(scopes[first]) : scopes[first][k][1] = ident][2]

\* ScopedConstLookup::lookup_const: scopes is a sequence of maps, each a
\* sequence of <<name, value>> pairs with distinct names; innermost last
RECURSIVE lookup_const(_, _)
lookup_const(scopes, ident) ==
    IF scopes = <<>> THEN NoVal
    ELSE LET scope == scopes[Len(scopes)]
         IN IF \E i \in 1..Len(scope) : scope[i][1] = ident
            THEN scope[CHOOSE i \in 1..Len(scope) : scope[i][1] = ident][2]
            ELSE lookup_const(SubSeq(scopes, 1, Len(scopes) - 1), ident)

(***************************************************************************)
(* const_propagate_expr, one operator per arm of its match.  The arms take *)
(* the results of the recursive calls; an arm reads the result of a later  *)
(* call only where the code has made that call.  The operators BitOr,      *)
(* BitXor, BitAnd, LShift, RShift and Mod are outside the expressions      *)
(* explored and have no table here.                                        *)
(***************************************************************************)

UnaryTable(op) ==
    CASE op = "Add" -> OP_UNARY_ADD
      [] op = "Minus" -> OP_UNARY_MINUS
      [] op = "Not" -> OP_UNARY_NOT
      [] op = "Complement" -> OP_UNARY_COMPLEMENT

BinaryTable(op) ==
    CASE op = "Or" -> build(BoolOverloads("or"))
      [] op = "Xor" -> build(BoolOverloads("xor"))
      [] op = "And" -> build(BoolOverloads("and"))
      [] op \in {"Equal", "NonEqual"} -> OP_BINARY_EQUAL
      [] op = "LT" -> build(CompareOverloads("lt"))
      [] op = "GT" -> build(CompareOverloads("gt"))
      [] op = "LTE" -> build(CompareOverloads("lte"))
      [] op = "GTE" -> build(CompareOverloads("gte"))
      [] op = "Add" -> OP_BINARY_ADD
      [] op = "Sub" -> OP_BINARY_SUB
      [] op = "Mult" -> OP_BINARY_MULT
      [] op = "Div" -> OP_BINARY_DIV

\* Expr::Unary(op, a), ra the propagation of a
PropUnary(op, ra, oc) ==
    IF Fails(ra) THEN ra
    ELSE IF ra.t = "Expr" THEN OkExpr(Unary(op, ra.e))
    ELSE IF try_into_base(ra.v).k = "None"
    THEN Err(IllegalUnaryOperand(op, type_specifier(ra.v)))
    ELSE IF op \in {"Inc", "Dec"} THEN Err(UnaryOpExpectedLValue(op))
    ELSE FromEval(eval(UnaryTable(op), <<ra.v>>, oc),
                  IllegalUnaryOperand(op, type_specifier(ra.v)))

\* a match on op whose NonEqual arm returns what Equal returns
BinaryEvalUnnegated(op, a, b, oc) ==
    FromEval(eval(BinaryTable(op), <<a, b>>, oc),
             IllegalBinaryOperand(op, type_specifier(a), type_specifier(b)))

\* the match on op of Expr::Binary for two base values
BinaryEval(op, a, b, oc) ==
    LET r == eval(BinaryTable(op), <<a, b>>, oc)
        err == IllegalBinaryOperand(op, type_specifier(a), type_specifier(b))
    IN IF op = "NonEqual" /\ r.k = "Base"
       THEN OkConst(new_bool(1 - r.el[1]))
       ELSE FromEval(r, err)

\* Expr::Binary once both operands propagated without failure
BinaryFold(op, ra, rb, oc) ==
    IF ra.t = "Const" /\ rb.t = "Const"
    THEN IF try_into_base(ra.v).k = "None" \/ try_into_base(rb.v).k = "None"
         THEN Err(IllegalBinaryOperand(op, type_specifier(ra.v), type_specifier(rb.v)))
         ELSE BinaryEval(op, ra.v, rb.v, oc)
    ELSE Rebuild(Binary(op, NoExpr, NoExpr), <<ra, rb>>)

\* a binary arm that reports every failure of an operand as its own error
PropBinaryMasking(op, ra, rb, oc) ==
    IF Fails(ra) \/ Fails(rb) THEN Err(IllegalBinaryOperand(op, "", ""))
    ELSE BinaryFold(op, ra, rb, oc)

\* Expr::Binary(op, a, b), ra and rb the propagations of a and b
PropBinary(op, ra, rb, oc) ==
    IF Fails(ra) THEN ra
    ELSE IF Fails(rb) THEN rb
    ELSE BinaryFold(op, ra, rb, oc)

\* a ternary arm that propagates both branches before it selects
PropTernaryEager(v, rb, rc) ==
    IF Fails(rb) THEN rb
    ELSE IF Fails(rc) THEN rc
    ELSE IF v = 1 THEN rb ELSE rc

\* Expr::Ternary whose condition is the scalar bool v: the propagation of
\* the selected branch, rb and rc the propagations of b and c
PropTernaryConst(v, rb, rc) == IF v = 1 THEN rb ELSE rc

\* Expr::Ternary whose condition stayed the expression ea
PropTernaryExpr(ea, rb, rc) ==
    IF Fails(rb) THEN rb
    ELSE IF Fails(rc) THEN rc
    ELSE Rebuild(Ternary(NoExpr, NoExpr, NoExpr), <<OkExpr(ea), rb, rc>>)

\* Expr::Assignment(a, op, b); rb is read only once a stayed an expression
PropAssignment(op, ra, rb) ==
    IF Fails(ra) THEN ra
    ELSE IF ra.t = "Const" THEN Err(AssignmentExpectedLValue)
    ELSE IF Fails(rb) THEN rb
    ELSE Rebuild(Assignment(NoExpr, op, NoExpr), <<ra, rb>>)

\* Expr::FunCall(ident, params) after the params propagated to rs without
\* failure; node is the call, whose callee is not propagated
PropFunCall(node, rs, oc) ==
    LET ret == IF node.k = "FunCall" THEN Rebuild(node, rs)
               ELSE Rebuild(node, <<OkExpr(node.ch[1])>> \o rs)
        func == BUILTIN_CONST_FUNCTIONS(node.op)
    IN IF \E i \in 1..Len(rs) : ~(rs[i].t = "Const" /\ rs[i].v.k = "Base") THEN ret
       ELSE IF node.k = "FunCallExpr" THEN ret
       ELSE IF ~func.found THEN ret
       ELSE FromEval(eval(func.overloads, [i \in 1..Len(rs) |-> rs[i].v], oc),
                     NoMatchingFunctionOverload)

\* a field access that takes the first field of a record whatever the name
PropDotFirstField(ra, ident) ==
    IF Fails(ra) THEN ra
    ELSE IF ra.t = "Expr" THEN OkExpr(Dot(ra.e, ident))
    ELSE IF ra.v.k = "Struct" THEN OkConst(ra.v.ent[1][2])
    ELSE Err(DotStructureRequired)

\* Expr::Dot(a, ident), ra the propagation of a
PropDot(ra, ident) ==
    IF Fails(ra) THEN ra
    ELSE IF ra.t = "Expr" THEN OkExpr(Dot(ra.e, ident))
    ELSE IF ra.v.k = "Struct"
    THEN IF struct_lookup_const(ra.v, ident).k = "None"
         THEN Err(UnknownStructureMember(ident))
         ELSE OkConst(struct_lookup_const(ra.v, ident))
    ELSE IF ra.v.k = "Array" THEN Abort("not yet implemented")
    ELSE Err(DotStructureRequired)

\* Expr::PostInc(a) and Expr::PostDec(a), kind the variant
PropPostOp(kind, ra) ==
    IF Fails(ra) THEN ra
    ELSE IF ra.t = "Const" THEN Err(PostOpExpectedLValue)
    ELSE OkExpr([k |-> kind, op |-> "", n |-> 0, ch |-> <<ra.e>>])

\* Expr::Comma(a, b)
PropComma(ra, rb) ==
    IF Fails(ra) THEN ra
    ELSE IF Fails(rb) THEN rb
    ELSE Rebuild(Comma(NoExpr, NoExpr), <<ra, rb>>)

\* Expr::Variable(ident)
PropVariable(ident, scopes) ==
    IF lookup_const(scopes, ident).k = "None" THEN OkExpr(Variable(ident))
    ELSE OkConst(lookup_const(scopes, ident))

\* const_propagate_expr(expr, cl, fl) with fl the built-in functions; oc
\* tells whether the build checks integer overflow
RECURSIVE const_propagate_expr(_, _, _)
const_propagate_expr(e, scopes, oc) ==
    CASE e.k = "Variable" -> PropVariable(e.op, scopes)
      [] e.k = "IntConst" -> OkConst(new_int(e.n))
      [] e.k = "UIntConst" -> OkConst(new_uint(e.n))
      [] e.k = "BoolConst" -> OkConst(new_bool(e.n))
      [] e.k = "FloatConst" -> OkConst(new_float(e.n))
      [] e.k = "DoubleConst" -> OkConst(new_double(e.n))
      [] e.k = "Unary" -> PropUnary(e.op, const_propagate_expr(e.ch[1], scopes, oc), oc)
      [] e.k = "Binary" ->
            PropBinary(e.op, const_propagate_expr(e.ch[1], scopes, oc),
                       const_propagate_expr(e.ch[2], scopes, oc), oc)
      [] e.k = "Ternary" ->
            (LET ra == const_propagate_expr(e.ch[1], scopes, oc)
             IN IF Fails(ra) THEN ra
                ELSE IF ra.t = "Const"
                THEN IF ra.v.k = "Base" /\ ra.v.ty = "Bool" /\ ra.v.shape = "Scalar"
                     THEN PropTernaryConst(ra.v.el[1],
                                           const_propagate_expr(e.ch[2], scopes, oc),
                                           const_propagate_expr(e.ch[3], scopes, oc))
                     ELSE Err(TernaryExpectedScalarBool)
                ELSE PropTernaryExpr(ra.e, const_propagate_expr(e.ch[2], scopes, oc),
                                     const_propagate_expr(e.ch[3], scopes, oc)))
      [] e.k = "Assignment" ->
            PropAssignment(e.op, const_propagate_expr(e.ch[1], scopes, oc),
                           const_propagate_expr(e.ch[2], scopes, oc))
      [] e.k = "Bracket" -> Abort("not yet implemented")
      [] e.k \in {"FunCall", "FunCallExpr"} ->
            (LET ps == IF e.k = "FunCall" THEN e.ch ELSE Tail(e.ch)
                 rs == [i \in 1..Len(ps) |-> const_propagate_expr(ps[i], scopes, oc)]
             IN IF \E i \in 1..Len(rs) : Fails(rs[i]) THEN FirstFailure(rs)
                ELSE PropFunCall(e, rs, oc))
      [] e.k = "Dot" -> PropDot(const_propagate_expr(e.ch[1], scopes, oc), e.op)
      [] e.k \in {"PostInc", "PostDec"} ->
            PropPostOp(e.k, const_propagate_expr(e.ch[1], scopes, oc))
      [] e.k = "Comma" ->
            PropComma(const_propagate_expr(e.ch[1], scopes, oc),
                      const_propagate_expr(e.ch[2], scopes, oc))

(***************************************************************************)
(* The inputs explored                                                     *)
(***************************************************************************)

\* most parameters of a call expression
MaxParams == 2

\* most overloads added to a ConstEvalFunctionBuilder
MaxOverloads == 2

\* the sequences over S of length at most n
RECURSIVE SeqsUpTo(_, _)
SeqsUpTo(S, n) ==
    IF n = 0 THEN {<<>>}
    ELSE SeqsUpTo(S, n - 1) \cup {Append(q, x) : q \in SeqsUpTo(S, n - 1), x \in S}

\* a record constant `struct S { int a; vec2 v; }`, an array constant and
\* the lookups: nothing bound, or c, s and arr bound with c shadowed once
RecordS ==
    StructVal("S", <<<<"a", new_int(1)>>, <<"v", BaseVal("Float", "Vec2", <<1, 2>>)>>>>)

LookupSet ==
    {<<<<>>>>,
     <<<<<<"c", new_bool(1)>>, <<"s", RecordS>>, <<"arr", ArrayVal("int", <<2>>)>>>>,
       <<<<"c", new_int(5)>>>>>>}

\* every node kind over the children S, calls with at most n parameters
Nodes(S, n) ==
    {Unary(op, a) : op \in {"Inc", "Dec", "Add", "Minus", "Not", "Complement"}, a \in S}
    \cup {Binary(op, a, b) :
              op \in {"Or", "Xor", "And", "Equal", "NonEqual", "LT", "GT", "LTE", "GTE",
                      "Add", "Sub", "Mult"},
              a \in S, b \in S}
    \cup {Ternary(a, b, c) : a \in S, b \in S, c \in S}
    \cup {Assignment(a, "Equal", b) : a \in S, b \in S}
    \cup {Bracket(a, b) : a \in S, b \in S}
    \cup {FunCall(f, ps) : f \in {"vec3", "int", "mat2", "f"}, ps \in SeqsUpTo(S, n)}
    \cup {FunCallExpr(Variable("x"), ps) : ps \in SeqsUpTo(S, 1)}
    \cup {Dot(a, f) : a \in S, f \in {"a", "zz"}}
    \cup {PostInc(a) : a \in S} \cup {PostDec(a) : a \in S}
    \cup {Comma(a, b) : a \in S, b \in S}

\* leaves: x is free, c, s and arr may be bound
Atoms ==
    {Variable("x"), Variable("c"), Variable("s"), Variable("arr"),
     IntConst(1), IntConst(I32Max \div 2 + 1), UIntConst(1), BoolConst(1), BoolConst(0),
     FloatConst(1), DoubleConst(1)}

\* nodes one level above a node over a few of the leaves
Nested ==
    LET OuterAtoms == {Variable("x"), FloatConst(1)}
        Inner == Nodes({Variable("x"), Variable("s"), IntConst(1), BoolConst(1), FloatConst(1)},
                       MaxParams)
    IN {Unary(op, a) : op \in {"Inc", "Minus"}, a \in Inner}
       \cup {Binary("Mult", a, b) : a \in Inner, b \in OuterAtoms}
       \cup {Binary("Mult", b, a) : a \in Inner, b \in OuterAtoms}
       \cup {Ternary(a, b, c) : a \in {BoolConst(1), BoolConst(0), Variable("x")},
                                b \in Inner, c \in {IntConst(1)}}
       \cup {Ternary(a, c, b) : a \in {BoolConst(1), BoolConst(0), Variable("x")},
                                b \in Inner, c \in {IntConst(1)}}
       \cup {Assignment(a, "Equal", b) : a \in Inner, b \in {IntConst(1)}}
       \cup {Assignment(b, "Equal", a) : a \in Inner, b \in {Variable("x")}}
       \cup {FunCall(f, <<a>>) : f \in {"int", "f"}, a \in Inner}
       \cup {Dot(a, "a") : a \in Inner}
       \cup {PostInc(a) : a \in Inner}
       \cup {Comma(a, b) : a \in Inner, b \in {Variable("x")}}

ExprSet == Atoms \cup Nodes(Atoms, MaxParams) \cup Nested

\* no result yet
NoResult == [t |-> "None", v |-> NoVal, e |-> NoExpr, err |-> NoErr]

\* no ConstArray::get, no comparison, no call on a ScopedConstLookup and no
\* worker in the behaviour
NoArrayCall ==
    /\ array = [dims |-> <<>>, data |-> <<>>]
    /\ indices = <<>>
    /\ element = NoVal
    /\ ord = <<>>
    /\ trace = <<>>
    /\ worker = <<>>

(***************************************************************************)
(* The propagator: one call of const_propagate_expr on an expression, a    *)
(* lookup and a build                                                      *)
(***************************************************************************)

PropInit ==
    /\ expr \in ExprSet
    /\ cl \in LookupSet
    /\ overflow_checks \in BOOLEAN
    /\ result = NoResult
    /\ pc = "ready"
    /\ overloads = <<>>
    /\ built = FALSE
    /\ params = <<>>
    /\ calls = <<>>
    /\ evalres = NoVal
    /\ NoArrayCall

Propagate ==
    /\ pc = "ready"
    /\ result' = const_propagate_expr(expr, cl, overflow_checks)
    /\ pc' = "done"
    /\ UNCHANGED <<expr, cl, overloads, built, params, calls, evalres, overflow_checks,
                 array, indices, element, ord, trace, worker>>

SpecProp == PropInit /\ [][Propagate]_vars

(***************************************************************************)
(* The dispatcher: a ConstEvalFunctionBuilder filled by add_overload_N and *)
(* add_generic, consumed by build, and the built function evaluated.  A    *)
(* user closure is a stub that returns Some(tag) or None; the lazy_static  *)
(* tables come with their own closures.                                    *)
(***************************************************************************)

\* the prototypes a stub closure is declared over
StubPrototypes ==
    {<<>>, <<ParameterType("Int", "Scalar")>>}
    \cup {<<ParameterType("Float", sh)>> :
              sh \in {"Scalar", "GenericSV", "Mat2", "GenericM", "GenericSVM"}}
    \cup {<<ParameterType("Float", "GenericSV"), ParameterType("Float", "Scalar")>>,
          <<ParameterType("Float", "GenericM"), ParameterType("Float", "GenericM")>>}

\* the argument lists eval is called with
ParamSet ==
    {<<>>, <<new_int(1)>>, <<new_float(1)>>,
     <<BaseVal("Float", "Vec2", <<1, 2>>)>>, <<BaseVal("Int", "Vec3", <<1, 2, 3>>)>>,
     <<BaseVal("Float", "Mat2", <<1, 2, 3, 4>>)>>,
     <<BaseVal("Float", "Vec2", <<1, 2>>), new_float(1)>>,
     <<BaseVal("Float", "Vec2", <<1, 2>>), BaseVal("Float", "Vec3", <<1, 2, 3>>)>>,
     <<BaseVal("Float", "Mat2", <<1, 2, 3, 4>>), BaseVal("Float", "Mat2", <<1, 2, 3, 4>>)>>}

DispInit ==
    /\ overloads = <<>>
    /\ built = FALSE
    /\ params = <<>>
    /\ calls = <<>>
    /\ evalres = NoVal
    /\ overflow_checks \in BOOLEAN
    /\ pc = "ready"
    /\ expr = NoExpr
    /\ cl = <<<<>>>>
    /\ result = NoResult
    /\ NoArrayCall

\* ConstEvalFunctionBuilder::add_overload_0 / _1 / _2 with a stub closure
add_overload ==
    /\ ~built
    /\ Len(overloads) < MaxOverloads
    /\ \E proto \in StubPrototypes, fn \in {"some", "none"} :
          overloads' = Append(overloads,
              Instance(TRUE, proto, fn, "", "Int", Len(overloads) + 1, 0))
    /\ UNCHANGED <<expr, cl, result, pc, built, params, calls, evalres, overflow_checks,
                 array, indices, element, ord, trace, worker>>

\* ConstEvalFunctionBuilder::add_generic with a stub closure
add_generic ==
    /\ ~built
    /\ Len(overloads) < MaxOverloads
    /\ \E fn \in {"some", "none"} :
          overloads' = Append(overloads,
              from_generic(fn, "Int", Len(overloads) + 1, 0))
    /\ UNCHANGED <<expr, cl, result, pc, built, params, calls, evalres, overflow_checks,
                 array, indices, element, ord, trace, worker>>

\* ConstEvalFunctionBuilder::build
Build ==
    /\ ~built
    /\ overloads' = build(overloads)
    /\ built' = TRUE
    /\ UNCHANGED <<expr, cl, result, pc, params, calls, evalres, overflow_checks,
                 array, indices, element, ord, trace, worker>>

\* the first dereference of a lazy_static table: the block runs new(), its
\* add_* calls and build()
lazy_static ==
    /\ ~built
    /\ overloads = <<>>
    /\ overloads' \in {OP_UNARY_MINUS, OP_BINARY_EQUAL, OP_BINARY_ADD, OP_BINARY_MULT}
    /\ built' = TRUE
    /\ UNCHANGED <<expr, cl, result, pc, params, calls, evalres, overflow_checks,
                 array, indices, element, ord, trace, worker>>

\* ConstEvalFunction::eval on a built function.  eval takes &self and
\* leaves the function as it is: a behaviour explores one call.
Eval ==
    /\ built
    /\ pc = "ready"
    /\ \E ps \in ParamSet :
          /\ params' = ps
          /\ calls' = eval_loop(overloads, 1, ps, overflow_checks).calls
          /\ evalres' = eval(overloads, ps, overflow_checks)
    /\ pc' = "done"
    /\ UNCHANGED <<expr, cl, result, overloads, built, overflow_checks,
                 array, indices, element, ord, trace, worker>>

DispNext == add_overload \/ add_generic \/ Build \/ lazy_static \/ Eval

SpecDispatch == DispInit /\ [][DispNext]_vars

(***************************************************************************)
(* Properties of const_propagate_expr (under SpecProp)                     *)
(***************************************************************************)

\* the propagation of a sub-expression under the lookup and build of the state
PropOf(e) == const_propagate_expr(e, cl, overflow_checks)

Done(kinds) == pc = "done" /\ expr.k \in kinds

IsConstBase(r) == r.t = "Const" /\ r.v.k = "Base"

\* C1: a binary expression with exactly one operand propagating to a
\* constant base value and the other staying an expression returns
\* Expr(op a' b'), the expression operand being its propagated expression
\* and the constant operand a literal.
C1_BinaryRebuiltAroundConstant ==
    Done({"Binary"}) =>
        LET ra == PropOf(expr.ch[1])
            rb == PropOf(expr.ch[2])
        IN /\ (IsConstBase(ra) /\ rb.t = "Expr") =>
                  /\ result.t = "Expr"
                  /\ result.e.k = "Binary" /\ result.e.op = expr.op
                  /\ result.e.ch[2] = rb.e
                  /\ result.e.ch[1].k \in {"IntConst", "UIntConst", "BoolConst",
                                           "FloatConst", "DoubleConst", "FunCall"}
           /\ (ra.t = "Expr" /\ IsConstBase(rb)) =>
                  /\ result.t = "Expr"
                  /\ result.e.k = "Binary" /\ result.e.op = expr.op
                  /\ result.e.ch[1] = ra.e
                  /\ result.e.ch[2].k \in {"IntConst", "UIntConst", "BoolConst",
                                           "FloatConst", "DoubleConst", "FunCall"}

\* C1: `(true ? 1 : 1) * x` with x free has been propagated and the call
\* panicked in ConstVal::as_expr
C1_ConstantOperandAborts ==
    /\ pc = "done"
    /\ expr = Binary("Mult", Ternary(BoolConst(1), IntConst(1), IntConst(1)), Variable("x"))
    /\ result = Abort("not yet implemented")

\* C2: for a ternary whose condition propagates to a constant scalar bool,
\* the result is the propagation of the selected branch alone (b if true,
\* c if false), whatever propagating the other branch would do.
C2_TernarySelectedBranchOnly ==
    Done({"Ternary"}) =>
        LET ra == PropOf(expr.ch[1])
        IN (ra.t = "Const" /\ ra.v.k = "Base" /\ ra.v.ty = "Bool" /\ ra.v.shape = "Scalar") =>
               /\ ra.v.el[1] = 1 => result = PropOf(expr.ch[2])
               /\ ra.v.el[1] = 0 => result = PropOf(expr.ch[3])

\* C2: a ternary with a constant true condition has been propagated, its
\* unselected branch is one whose propagation fails, and the result is the
\* constant of the selected branch
C2_UnselectedFailureUnseen ==
    /\ Done({"Ternary"})
    /\ PropOf(expr.ch[1]) = OkConst(new_bool(1))
    /\ Fails(PropOf(expr.ch[3]))
    /\ result.t = "Const"
    /\ result = PropOf(expr.ch[2])

\* C3: for every expression and lookup const_propagate_expr finishes with
\* Const, Expr or an error value and never aborts, and an index expression
\* a[i] yields the error IllegalExpression.
C3_NeverAborts ==
    pc = "done" =>
        /\ result.t \in {"Const", "Expr", "Err"}
        /\ expr.k = "Bracket" => result = Err(IllegalExpression)

\* C3: an index expression a[i] has been propagated and the call panicked
C3_IndexAborts ==
    /\ Done({"Bracket"})
    /\ result.t = "Abort"

\* a call of the vec3 constructor whose parameters are constant base
\* values with fewer than three elements in all, other than one scalar
IsShortVecCall(e) ==
    /\ e.k = "FunCall" /\ e.op = "vec3"
    /\ \A i \in 1..Len(e.ch) : IsConstBase(PropOf(e.ch[i]))
    /\ ~(Len(e.ch) = 1 /\ PropOf(e.ch[1]).v.shape = "Scalar")
    /\ SumOf([i \in 1..Len(e.ch) |-> ShapeWidth(PropOf(e.ch[i]).v.shape)]) < 3

\* C4 (as stated): a binary expression one of whose operands is a vector
\* constructor call with too few elements returns IllegalBinaryOperand.
C4_ShortVectorIsIllegalBinaryOperand ==
    Done({"Binary"}) =>
        ((IsShortVecCall(expr.ch[1]) \/ IsShortVecCall(expr.ch[2])) =>
            (result.t = "Err" /\ result.err[1] = "IllegalBinaryOperand"))

\* C4 (amended): an error raised while propagating the left operand of a
\* binary expression, or the right operand once the left has propagated, is
\* what the binary expression returns, unchanged; for a vector constructor
\* call with too few elements as the left operand that is
\* NoMatchingFunctionOverload.
C4_OperandErrorReturned ==
    Done({"Binary"}) =>
        LET ra == PropOf(expr.ch[1])
            rb == PropOf(expr.ch[2])
        IN /\ ra.t = "Err" => result = ra
           /\ (~Fails(ra) /\ rb.t = "Err") => result = rb
           /\ IsShortVecCall(expr.ch[1]) => result = Err(NoMatchingFunctionOverload)

\* C4: `vec3(1.0, 1.0) * 1.0` has been propagated and returned the error of
\* the constructor call
C4_ShortVectorTimesScalar ==
    /\ pc = "done"
    /\ expr = Binary("Mult", FunCall("vec3", <<FloatConst(1), FloatConst(1)>>), FloatConst(1))
    /\ IsShortVecCall(expr.ch[1])
    /\ result = Err(NoMatchingFunctionOverload)

\* C5: when the target of an assignment, or the operand of a post-increment
\* or post-decrement, propagates to a constant the result is the error
\* AssignmentExpectedLValue, respectively PostOpExpectedLValue; when the
\* target stays an expression the node is rebuilt with the propagated
\* children.
C5_LValueOrRebuilt ==
    /\ Done({"Assignment"}) =>
          LET ra == PropOf(expr.ch[1])
              rb == PropOf(expr.ch[2])
          IN /\ ra.t = "Const" => result = Err(AssignmentExpectedLValue)
             /\ (ra.t = "Expr" /\ rb.t \in {"Const", "Expr"}) =>
                   /\ result.t = "Expr"
                   /\ result.e.k = "Assignment" /\ result.e.op = expr.op
                   /\ result.e.ch[1] = ra.e
                   /\ rb.t = "Expr" => result.e.ch[2] = rb.e
    /\ Done({"PostInc", "PostDec"}) =>
          LET ra == PropOf(expr.ch[1])
          IN /\ ra.t = "Const" => result = Err(PostOpExpectedLValue)
             /\ ra.t = "Expr" =>
                   result = OkExpr([k |-> expr.k, op |-> "", n |-> 0, ch |-> <<ra.e>>])

\* C5: `x = 1` with x free has been propagated and the call panicked
C5_AssignedConstantAborts ==
    /\ pc = "done"
    /\ expr = Assignment(Variable("x"), "Equal", IntConst(1))
    /\ result.t = "Abort"

\* C6: a pre-increment or pre-decrement whose operand propagates to any
\* constant value (base, array or record) returns UnaryOpExpectedLValue(op).
C6_PreIncDecExpectsLValue ==
    (Done({"Unary"}) /\ expr.op \in {"Inc", "Dec"}) =>
        (PropOf(expr.ch[1]).t = "Const" => result = Err(UnaryOpExpectedLValue(expr.op)))

\* C6: `++s` with s bound to a record constant has been propagated and
\* returned IllegalUnaryOperand
C6_RecordOperandIsIllegalOperand ==
    /\ pc = "done"
    /\ expr = Unary("Inc", Variable("s"))
    /\ PropOf(expr.ch[1]) = OkConst(RecordS)
    /\ result = Err(IllegalUnaryOperand("Inc", "struct S"))

\* the parameters of a call expression
CallParams(e) == IF e.k = "FunCall" THEN e.ch ELSE Tail(e.ch)

\* C7: for a call f(args) whose arguments propagate: if any argument stays
\* non-constant, or the callee is not an identifier, or the function lookup
\* has no entry for f, the result is Expr(f(args')) with every argument
\* propagated; if all arguments are constant base values and f is found the
\* result is Const(dispatch result), or NoMatchingFunctionOverload exactly
\* when the dispatcher returns absent.
C7_CallRebuiltOrDispatched ==
    Done({"FunCall", "FunCallExpr"}) =>
        LET ps == CallParams(expr)
            rs == [i \in 1..Len(ps) |-> PropOf(ps[i])]
            found == expr.k = "FunCall" /\ BUILTIN_CONST_FUNCTIONS(expr.op).found
            r == eval(BUILTIN_CONST_FUNCTIONS(expr.op).overloads,
                      [i \in 1..Len(ps) |-> rs[i].v], overflow_checks)
        IN (\A i \in 1..Len(ps) : ~Fails(rs[i])) =>
              /\ ((\E i \in 1..Len(ps) : rs[i].t = "Expr") \/ ~found) =>
                    /\ result.t = "Expr"
                    /\ result.e.k = expr.k /\ result.e.op = expr.op
                    /\ Len(CallParams(result.e)) = Len(ps)
                    /\ \A i \in 1..Len(ps) :
                          rs[i].t = "Expr" => CallParams(result.e)[i] = rs[i].e
              /\ ((\A i \in 1..Len(ps) : IsConstBase(rs[i])) /\ found) =>
                    /\ r.k = "None" <=> result = Err(NoMatchingFunctionOverload)
                    /\ r.k # "None" => result = OkConst(r)

\* C7: `f(1)` with f not a built-in function has been propagated and the
\* call panicked
C7_UnknownFunctionOfConstantAborts ==
    /\ pc = "done"
    /\ expr = FunCall("f", <<IntConst(1)>>)
    /\ ~BUILTIN_CONST_FUNCTIONS("f").found
    /\ result.t = "Abort"

\* C8: for a field access a.name: when a propagates to a record constant
\* the result is Const(value of the field) if the record has the field and
\* the error UnknownStructureMember(name) otherwise; when a propagates to a
\* constant base value the result is the error DotStructureRequired; when a
\* stays an expression the node is rebuilt as Expr(a'.name).
C8_FieldAccess ==
    Done({"Dot"}) =>
        LET ra == PropOf(expr.ch[1])
            fields == IF ra.t = "Const" /\ ra.v.k = "Struct" THEN ra.v.ent ELSE <<>>
        IN /\ (ra.t = "Const" /\ ra.v.k = "Struct") =>
                  /\ \A i \in 1..Len(fields) :
                        fields[i][1] = expr.op => result = OkConst(fields[i][2])
                  /\ (\A i \in 1..Len(fields) : fields[i][1] # expr.op) =>
                        result = Err(UnknownStructureMember(expr.op))
           /\ IsConstBase(ra) => result = Err(DotStructureRequired)
           /\ ra.t = "Expr" => result = OkExpr(Dot(ra.e, expr.op))

\* C8: `s.zz` with s bound to a record constant without a field zz has
\* been propagated and returned UnknownStructureMember("zz")
C8_UnknownMemberReached ==
    /\ Done({"Dot"})
    /\ PropOf(expr.ch[1]) = OkConst(RecordS)
    /\ expr.op = "zz"
    /\ result = Err(UnknownStructureMember("zz"))

(***************************************************************************)
(* Properties of the dispatcher (under SpecDispatch)                       *)
(***************************************************************************)

\* the shape rule as the contract words it: GenericSV is any scalar or
\* vector, GenericM any matrix and nothing else, GenericSVM anything, a
\* concrete shape exactly that shape
ShapeMatchesAsStated(pshape, val) ==
    CASE pshape = "GenericSV" -> val \in {"Scalar", "Vec2", "Vec3", "Vec4"}
      [] pshape = "GenericM" -> val \notin {"Scalar", "Vec2", "Vec3", "Vec4"}
      [] pshape = "GenericSVM" -> TRUE
      [] OTHER -> val = pshape

\* compatibility as the contract words it
CompatibleAsStated(inst, types) ==
    \/ ~inst.typed
    \/ /\ Len(types) = Len(inst.prototype)
       /\ \A i \in 1..Len(types) :
             /\ ShapeMatchesAsStated(inst.prototype[i].shape, types[i].shape)
             /\ can_cast_into(types[i].base_type, inst.prototype[i].base_type)

\* C9: a typed instance is compatible with argument descriptors if and only
\* if the argument count equals the prototype length and, for every i, the
\* prototype shape matches shape_i (GenericSV: any scalar or vector;
\* GenericM: any matrix and nothing else; GenericSVM: anything; a concrete
\* shape: exactly that shape) and base_i can cast into the prototype base
\* type; a generic instance is compatible with everything.
C9_CompatibleIffShapesAndBases ==
    pc = "done" =>
        \A i \in 1..Len(overloads) :
            compatible_with(overloads[i], TypesOf(params))
                <=> CompatibleAsStated(overloads[i], TypesOf(params))

\* C9: a function with an instance over a float GenericM parameter has
\* been evaluated on one float matrix and the instance was not invoked
C9_MatrixRejectedByGenericM ==
    /\ pc = "done"
    /\ Len(params) = 1 /\ params[1].ty = "Float" /\ is_matrix(params[1].shape)
    /\ \E i \in 1..Len(overloads) :
          /\ overloads[i].typed
          /\ overloads[i].prototype = <<ParameterType("Float", "GenericM")>>
          /\ ~compatible_with(overloads[i], TypesOf(params))
          /\ \A j \in 1..Len(calls) : calls[j] # i

\* whether instance i, compatible as the contract words it, returns a
\* present result on the arguments of the state
ReturnsPresent(i) ==
    /\ CompatibleAsStated(overloads[i], TypesOf(params))
    /\ instance_eval(overloads[i], params, overflow_checks).k = "Base"

\* C10: eval visits the instances of a built function in ascending
\* prototype-comparator order with every generic instance after every typed
\* one, invokes only instances compatible with the arguments, continues
\* past an instance whose evaluator returns absent, returns the first
\* present result, and returns absent if and only if no compatible instance
\* returns present.
C10_FirstPresentInOrder ==
    pc = "done" =>
        /\ \A i \in 1..Len(overloads) : \A j \in 1..Len(overloads) :
              i < j => /\ cast_cmp(overloads[i], overloads[j]) # "Greater"
                       /\ ~overloads[i].typed => ~overloads[j].typed
        /\ \A k \in 1..Len(calls) :
              /\ CompatibleAsStated(overloads[calls[k]], TypesOf(params))
              /\ k < Len(calls) => calls[k] < calls[k + 1]
        /\ evalres.k \in {"Base", "None"}
        /\ evalres.k = "None" <=> \A i \in 1..Len(overloads) : ~ReturnsPresent(i)
        /\ \A i \in 1..Len(overloads) :
              (ReturnsPresent(i) /\ \A j \in 1..(i - 1) : ~ReturnsPresent(j)) =>
                  /\ evalres = instance_eval(overloads[i], params, overflow_checks)
                  /\ calls # <<>> /\ calls[Len(calls)] = i

\* C10: a function whose instance takes a float GenericM parameter has been
\* evaluated on a float vector, the instance was invoked and the call
\* panicked in its implicit cast
C10_VectorIntoGenericMPanics ==
    /\ pc = "done"
    /\ Len(params) = 1 /\ is_vector(params[1].shape)
    /\ calls # <<>>
    /\ overloads[calls[Len(calls)]].prototype = <<ParameterType("Float", "GenericM")>>
    /\ evalres = PanicVal("Implicit cast failed")

(***************************************************************************)
(* Folding of constants: one call of const_propagate_expr on an operator   *)
(* or a constructor applied to constants, or on the expression as_expr     *)
(* writes for a constant                                                   *)
(***************************************************************************)

\* ConstBaseVal::as_expr: a literal for a scalar, else a call of the
\* constructor the arm names on the literals of v.iter() (column-major);
\* the three arms for double vectors all name dvec4
ConstBaseVal_as_expr(v) ==
    LET lit(x) == [k |-> v.ty \o "Const", op |-> "", n |-> x, ch |-> <<>>]
        name == IF v.ty = "Double" /\ is_vector(v.shape) THEN "dvec4"
                ELSE TypePrefix(v.ty) \o ShapeSuffix(v.shape)
    IN IF v.shape = "Scalar" THEN lit(v.el[1])
       ELSE FunCall(name, [i \in 1..Len(v.el) |-> lit(v.el[i])])

\* base values of every base type and shape: for each scalar a few values,
\* for each vector 1, 2, .. (true, .., false for bool) and one repeated
\* element, for each matrix 1, 2, .. in column-major order
BaseVals ==
    LET Scalars(ty) ==
            CASE ty = "Bool" -> {0, 1} [] ty = "Int" -> {-3, 0, 3, 5}
              [] ty = "UInt" -> {1, 3} [] ty = "Float" -> {2, 12} [] ty = "Double" -> {2, 3}
        Repeated(ty) ==
            CASE ty = "Bool" -> 1 [] ty = "Int" -> -3 [] ty = "UInt" -> 3
              [] ty = "Float" -> 12 [] ty = "Double" -> 2
        Ramp(ty, sh) ==
            [i \in 1..ShapeWidth(sh) |->
                IF ty = "Bool" THEN (IF i = ShapeWidth(sh) THEN 0 ELSE 1) ELSE i]
    IN UNION {{BaseVal(ty, "Scalar", <<x>>) : x \in Scalars(ty)} :
                 ty \in SeqRange(ParameterBaseTypes)}
       \cup UNION {{BaseVal(ty, sh, Ramp(ty, sh)),
                    BaseVal(ty, sh, [i \in 1..ShapeWidth(sh) |-> Repeated(ty)])} :
                      ty \in SeqRange(ParameterBaseTypes), sh \in {"Vec2", "Vec3", "Vec4"}}
       \cup {BaseVal(ty, sh, Ramp(ty, sh)) :
                ty \in {"Float", "Double"},
                sh \in {x \in SeqRange(BaseTypeShapes) : is_matrix(x)}}

\* the expressions folded: as_expr(v) under the empty lookup; a binary
\* operator on two bound constants (a float division only where the
\* quotients are integral); a unary operator on a bound constant; a
\* constructor on up to three bound constants.
\* Bind(ps) is the lookup of one scope that binds p1, p2, .. to ps.
FoldInit ==
    LET Bind(ps) == <<[i \in 1..Len(ps) |-> <<<<"p1", "p2", "p3">>[i], ps[i]>>]>>
    IN
    /\ \/ \E v \in BaseVals :
             /\ params = <<v>>
             /\ expr = ConstBaseVal_as_expr(v)
             /\ cl = <<<<>>>>
       \/ \E a \in BaseVals, b \in BaseVals,
             op \in {"Add", "Sub", "Mult", "Div", "Equal", "NonEqual"} :
             /\ (op = "Div" /\ {a.ty, b.ty} \cap {"Float", "Double"} # {})
                   => \A i \in 1..Len(a.el), j \in 1..Len(b.el) :
                         b.el[j] # 0 /\ Abs(a.el[i]) % Abs(b.el[j]) = 0
             /\ params = <<a, b>>
             /\ expr = Binary(op, Variable("p1"), Variable("p2"))
             /\ cl = Bind(params)
       \/ \E v \in BaseVals \cup {new_int(I32Min), new_int(I32Max),
                                   BaseVal("Int", "Vec2", <<I32Min, 5>>),
                                   BaseVal("UInt", "Vec2", <<4, 4>>)},
             op \in {"Add", "Minus", "Not", "Complement"} :
             /\ params = <<v>>
             /\ expr = Unary(op, Variable("p1"))
             /\ cl = Bind(params)
       \/ LET Few == {new_int(5), new_bool(1), new_float(12), new_double(3),
                      BaseVal("UInt", "Vec2", <<1, 2>>), BaseVal("Bool", "Vec2", <<1, 0>>),
                      BaseVal("Float", "Vec3", <<1, 2, 3>>),
                      BaseVal("Double", "Mat2", <<1, 2, 3, 4>>)}
              Fewer == {new_int(5), new_float(2), BaseVal("Bool", "Vec2", <<1, 0>>)}
              Names == {TypePrefix(ty) \o ShapeSuffix(sh) :
                           ty \in SeqRange(ParameterBaseTypes), sh \in {"Vec2", "Vec3", "Vec4"}}
                       \cup {p \o ShapeSuffix(sh) :
                                p \in {"", "d"},
                                sh \in {x \in SeqRange(BaseTypeShapes) : is_matrix(x)}}
          IN \E ps \in {<<>>} \cup {<<v>> : v \in BaseVals}
                       \cup {<<v, w>> : v \in Few, w \in Few}
                       \cup {<<u, v, w>> : u \in Fewer, v \in Fewer, w \in Fewer},
                name \in Names :
                /\ params = ps
                /\ expr = FunCall(name, [i \in 1..Len(ps) |-> Variable(Bind(ps)[1][i][1])])
                /\ cl = Bind(ps)
    /\ overflow_checks \in BOOLEAN
    /\ result = NoResult
    /\ pc = "ready"
    /\ overloads = <<>>
    /\ built = FALSE
    /\ calls = <<>>
    /\ evalres = NoVal
    /\ NoArrayCall

SpecFold == FoldInit /\ [][Propagate]_vars

(***************************************************************************)
(* Properties of folding (under SpecFold)                                  *)
(***************************************************************************)

\* a folded binary expression with one of the operators ops
FoldDone(ops) == pc = "done" /\ expr.k = "Binary" /\ expr.op \in ops

\* the wider of two numeric base types under i32 -> u32 -> f32 -> f64
Wider(t1, t2) ==
    LET chain == <<"Int", "UInt", "Float", "Double">>
    IN IF IndexOf(chain, t1) >= IndexOf(chain, t2) THEN t1 ELSE t2

\* two numeric scalars or vectors of broadcast-compatible shapes
BroadcastOperands(a, b) ==
    /\ a.ty # "Bool" /\ b.ty # "Bool"
    /\ ~is_matrix(a.shape) /\ ~is_matrix(b.shape)
    /\ (a.shape = b.shape \/ a.shape = "Scalar" \/ b.shape = "Scalar")

\* C11: Add, Sub, Mult and Div on two numeric scalar-or-vector constants of
\* broadcast-compatible shapes fold to a constant whose base type is the
\* wider of the two operand types, never a wider one, and whose shape is the
\* broadcast shape (unless the integer arithmetic itself panics);
\* uvec2(1, 2) + 3 is uvec2(4, 5) and -3 + 5 is 2 : i32.
C11_NarrowestOverloadWins ==
    (FoldDone({"Add", "Sub", "Mult", "Div"}) /\ BroadcastOperands(params[1], params[2]))
    => LET a == params[1]
           b == params[2]
       IN /\ \/ /\ result.t = "Const"
                /\ result.v.k = "Base"
                /\ result.v.ty = Wider(a.ty, b.ty)
                /\ result.v.shape = (IF a.shape = "Scalar" THEN b.shape ELSE a.shape)
             \/ /\ Wider(a.ty, b.ty) \in {"Int", "UInt"}
                /\ result = Abort("attempt to compute with overflow")
          /\ (expr.op = "Add" /\ a = BaseVal("UInt", "Vec2", <<1, 2>>) /\ b = new_int(3))
                => result = OkConst(BaseVal("UInt", "Vec2", <<4, 5>>))
          /\ (expr.op = "Add" /\ a = new_int(-3) /\ b = new_int(5))
                => result = OkConst(new_int(2))

\* C11 (witness): uvec2(1, 2) + 3 has folded to uvec2(4, 5)
C11_UVecPlusIntIsUVec ==
    /\ FoldDone({"Add"})
    /\ params = <<BaseVal("UInt", "Vec2", <<1, 2>>), new_int(3)>>
    /\ result = OkConst(BaseVal("UInt", "Vec2", <<4, 5>>))

\* the closure name of a binary arithmetic operator
ScalarOpOf(op) ==
    CASE op = "Add" -> "add" [] op = "Sub" -> "sub" [] op = "Mult" -> "mul" [] op = "Div" -> "div"

\* x op y on elements of base types tx and ty, each cast to the wider type
Combined(op, tx, x, ty, y) ==
    LET w == Wider(tx, ty)
    IN ScalarBin(ScalarOpOf(op), w, construct_from(w, tx, x), construct_from(w, ty, y))

\* C12 (as stated): Add, Sub, Div and Mult fold f32/f64 operands that
\* include a matrix: two matrices of one shape combine elementwise, a matrix
\* and a scalar broadcast the scalar keeping the operand order, the result
\* has the matrix's shape; two float operands of different non-scalar shapes
\* (other than a matrix-vector product under Mult) yield IllegalBinaryOperand.
C12_MatrixFoldsElementwise ==
    (/\ FoldDone({"Add", "Sub", "Mult", "Div"})
     /\ params[1].ty \in {"Float", "Double"}
     /\ params[2].ty \in {"Float", "Double"})
    => LET a == params[1]
           b == params[2]
           folded(shape, els) ==
               result = OkConst(BaseVal(Wider(a.ty, b.ty), shape, els))
       IN /\ (is_matrix(a.shape) /\ a.shape = b.shape)
                => folded(a.shape, [i \in 1..Len(a.el) |->
                                       Combined(expr.op, a.ty, a.el[i], b.ty, b.el[i])])
          /\ (is_matrix(a.shape) /\ b.shape = "Scalar")
                => folded(a.shape, [i \in 1..Len(a.el) |->
                                       Combined(expr.op, a.ty, a.el[i], b.ty, b.el[1])])
          /\ (a.shape = "Scalar" /\ is_matrix(b.shape))
                => folded(b.shape, [i \in 1..Len(b.el) |->
                                       Combined(expr.op, a.ty, a.el[1], b.ty, b.el[i])])
          /\ (/\ a.shape # "Scalar" /\ b.shape # "Scalar" /\ a.shape # b.shape
              /\ ~(expr.op = "Mult" /\ (is_vector(a.shape) \/ is_vector(b.shape))))
                => result = Err(IllegalBinaryOperand(expr.op, type_specifier(a),
                                                     type_specifier(b)))

\* C12 (witness): the sum of two mat2 constants is reported as an illegal
\* operand instead of being folded
C12_MatrixSumIsIllegalOperand ==
    /\ FoldDone({"Add"})
    /\ params = <<BaseVal("Float", "Mat2", <<1, 2, 3, 4>>), BaseVal("Float", "Mat2", <<1, 2, 3, 4>>)>>
    /\ result = Err(IllegalBinaryOperand("Add", "mat2", "mat2"))

\* C13: for two base operands of one shape whose base types have a common
\* type, `a == b` folds to true exactly when all corresponding elements are
\* equal after the cast to the common type and `a != b` folds to the
\* negation; operands of different shapes yield IllegalBinaryOperand under
\* both; swapping the operands gives the same outcome;
\* bvec3(true) == bvec3(true, true, false) is false.
C13_EqualityFolds ==
    FoldDone({"Equal", "NonEqual"})
    => LET a == params[1]
           b == params[2]
           w == IF a.ty = b.ty THEN a.ty ELSE Wider(a.ty, b.ty)
           same == \A i \in 1..Len(a.el) :
                      construct_from(w, a.ty, a.el[i]) = construct_from(w, b.ty, b.el[i])
           swapped == PropOf(Binary(expr.op, Variable("p2"), Variable("p1")))
       IN /\ (a.shape = b.shape /\ (a.ty = b.ty \/ (a.ty # "Bool" /\ b.ty # "Bool")))
                => result = OkConst(new_bool(IF (expr.op = "Equal") = same THEN 1 ELSE 0))
          /\ a.shape # b.shape
                => result = Err(IllegalBinaryOperand(expr.op, type_specifier(a),
                                                     type_specifier(b)))
          /\ swapped.t = result.t /\ swapped.v = result.v
          /\ (/\ expr.op = "Equal"
              /\ a = BaseVal("Bool", "Vec3", <<1, 1, 1>>)
              /\ b = BaseVal("Bool", "Vec3", <<1, 1, 0>>))
                => result = OkConst(new_bool(0))

\* C13 (witness): `!=` on an ivec2 and a vec2 with equal elements has folded
\* to false
C13_MixedVectorsCompareEqual ==
    /\ FoldDone({"NonEqual"})
    /\ params = <<BaseVal("Int", "Vec2", <<1, 2>>), BaseVal("Float", "Vec2", <<1, 2>>)>>
    /\ result = OkConst(new_bool(0))


\* as_expr(v) has been folded under the empty lookup
RoundTripDone ==
    /\ pc = "done"
    /\ Len(params) = 1
    /\ cl = <<<<>>>>
    /\ expr = ConstBaseVal_as_expr(params[1])

\* C14: folding as_expr(v) under the empty lookup returns the constant v
\* itself, and for a non-scalar v the expression calls the constructor named
\* after v's own base type and shape (dvec2 for a double 2-vector)
C14_AsExprRoundTrips ==
    RoundTripDone
    => /\ result = OkConst(params[1])
       /\ params[1].shape # "Scalar"
             => expr.op = TypePrefix(params[1].ty) \o ShapeSuffix(params[1].shape)

\* C14 (witness): as_expr of dvec2(1, 2) calls dvec4 and folds to
\* NoMatchingFunctionOverload
C14_DVec2HasNoOverload ==
    /\ RoundTripDone
    /\ params[1] = BaseVal("Double", "Vec2", <<1, 2>>)
    /\ expr.op = "dvec4"
    /\ result = Err(NoMatchingFunctionOverload)


\* a constructor call on the bound constants params has been folded
ConstructorDone ==
    /\ pc = "done"
    /\ expr.k = "FunCall"
    /\ Len(expr.ch) = Len(params)

\* C15: a matrix constructor that returns a value returns a matrix of the
\* shape and base type its name denotes (f32 for matRC, f64 for dmatRC);
\* on a single scalar argument it returns the matrix with the converted
\* scalar on the main diagonal and zero elsewhere
C15_MatrixConstructorsKeepNameType ==
    \A ty \in {"Float", "Double"}, sh \in {x \in SeqRange(BaseTypeShapes) : is_matrix(x)} :
        (ConstructorDone /\ expr.op = TypePrefix(ty) \o ShapeSuffix(sh))
        => /\ result.t = "Const" => (result.v.ty = ty /\ result.v.shape = sh)
           /\ (Len(params) = 1 /\ params[1].shape = "Scalar")
                 => result = OkConst(BaseVal(ty, sh,
                       [i \in 1..(ShapeRows(sh) * ShapeCols(sh)) |->
                           IF (i - 1) \div ShapeRows(sh) = (i - 1) % ShapeRows(sh)
                           THEN construct_from(ty, params[1].ty, params[1].el[1])
                           ELSE 0]))

\* C15 (witness): dmat2 on the double scalar 3 has folded to a float matrix
C15_DMat2IsFloat ==
    /\ ConstructorDone
    /\ expr.op = "dmat2"
    /\ params = <<new_double(3)>>
    /\ result = OkConst(BaseVal("Float", "Mat2", <<3, 0, 0, 3>>))


\* C16: a vector constructor of N elements on a single scalar folds to N
\* copies of the converted scalar; on other arguments that supply at least N
\* elements it folds to the first N elements of the arguments' element
\* streams, concatenated in argument order and converted; it folds to
\* NoMatchingFunctionOverload exactly when the arguments supply fewer than N
\* elements and are not a single scalar
C16_VectorConstructors ==
    \A ty \in SeqRange(ParameterBaseTypes), n \in 2..4 :
        (ConstructorDone /\ expr.op = TypePrefix(ty) \o ShapeSuffix(VecShape(n)))
        => LET width(i) == Len(params[i].el)
               before(i) == SumOf([j \in 1..(i - 1) |-> width(j)])
               total == before(Len(params) + 1)
               single == Len(params) = 1 /\ params[1].shape = "Scalar"
               \* the argument and the element within it that element k
               \* of the concatenation comes from
               arg(k) == CHOOSE i \in 1..Len(params) : before(i) < k /\ k <= before(i) + width(i)
               conv(k) == construct_from(ty, params[arg(k)].ty,
                                         params[arg(k)].el[k - before(arg(k))])
           IN /\ single => result = OkConst(BaseVal(ty, VecShape(n), [k \in 1..n |-> conv(1)]))
              /\ (~single /\ total >= n)
                    => result = OkConst(BaseVal(ty, VecShape(n), [k \in 1..n |-> conv(k)]))
              /\ result = Err(NoMatchingFunctionOverload) <=> (~single /\ total < n)

\* C16 (witness): ivec3 on a bool 2-vector and two floats has folded to the
\* first three converted elements
C16_IVec3FromBVec2AndFloats ==
    /\ ConstructorDone
    /\ expr.op = "ivec3"
    /\ params = <<BaseVal("Bool", "Vec2", <<1, 0>>), new_float(2), new_float(2)>>
    /\ result = OkConst(BaseVal("Int", "Vec3", <<1, 0, 2>>))


(***************************************************************************)
(* ConstArray::get and the cast_cmp comparators: one call on inputs drawn  *)
(* from bounded sets                                                       *)
(***************************************************************************)

\* ConstArray::get: None on an arity mismatch or when an index exceeds its
\* dimension, else data.get of the flat index accumulated over the
\* dimensions, first dimension fastest
ConstArray_get(a, idx) ==
    IF Len(a.dims) # Len(idx) THEN NoVal
    ELSE LET RECURSIVE loop(_, _, _)
             loop(i, index, cumulative) ==
                 IF i > Len(a.dims)
                 THEN (IF index < Len(a.data) THEN a.data[index + 1] ELSE NoVal)
                 ELSE IF idx[i] > a.dims[i] THEN NoVal
                 ELSE loop(i + 1, index + cumulative * idx[i], cumulative * a.dims[i])
         IN loop(1, 0, 1)

\* either an array of one to three dimensions whose flat store holds, at
\* each offset, the int scalar of that offset, with up to three indices; or
\* three function instances to compare: two with any prototype of no
\* parameter, of one parameter of any base type and shape, or of two
\* parameters of a few types, or with no prototype, and a third of fewer
\* choices
PureInit ==
    LET Types == {ParameterType(ty, sh) :
                     ty \in SeqRange(ParameterBaseTypes), sh \in SeqRange(ParameterShapes)}
        FewTypes == {ParameterType("Bool", "Scalar"), ParameterType("Int", "Scalar"),
                     ParameterType("Float", "Scalar"), ParameterType("Int", "GenericSV"),
                     ParameterType("Float", "Mat2"), ParameterType("Float", "GenericSVM")}
        ThirdTypes == FewTypes \cup {ParameterType("UInt", "Scalar"),
                                     ParameterType("Double", "Scalar"),
                                     ParameterType("UInt", "Vec2"),
                                     ParameterType("Double", "GenericM")}
        Stub(proto) == Instance(TRUE, proto, "none", "", "Int", 0, 0)
        Instances == {from_generic("none", "Int", 0, 0), Stub(<<>>)}
                     \cup {Stub(<<t>>) : t \in Types}
                     \cup {Stub(<<t, u>>) : t \in FewTypes, u \in FewTypes}
        Third == {from_generic("none", "Int", 0, 0), Stub(<<>>),
                  Stub(<<ParameterType("Int", "Scalar"), ParameterType("Float", "Mat2")>>)}
                 \cup {Stub(<<t>>) : t \in ThirdTypes}
        Prod(dims) == IF Len(dims) = 1 THEN dims[1]
                      ELSE IF Len(dims) = 2 THEN dims[1] * dims[2]
                      ELSE dims[1] * dims[2] * dims[3]
    IN
    /\ \/ /\ \E dims \in {<<1>>, <<3>>, <<2, 3>>, <<3, 2>>, <<2, 1, 2>>, <<2, 2, 2>>} :
                array = [dims |-> dims, data |-> [k \in 1..Prod(dims) |-> new_int(k - 1)]]
          /\ indices \in UNION {[1..n -> 0..3] : n \in 0..3}
          /\ overloads = <<>>
       \/ /\ array = [dims |-> <<>>, data |-> <<>>]
          /\ indices = <<>>
          /\ \E a \in Instances, b \in Instances, c \in Third : overloads = <<a, b, c>>
    /\ element = NoVal
    /\ ord = <<>>
    /\ trace = <<>>
    /\ worker = <<>>
    /\ built = FALSE
    /\ params = <<>>
    /\ calls = <<>>
    /\ evalres = NoVal
    /\ overflow_checks = FALSE
    /\ pc = "ready"
    /\ expr = NoExpr
    /\ cl = <<<<>>>>
    /\ result = NoResult

\* ConstArray::get(&self, indices)
Get ==
    /\ pc = "ready"
    /\ array.dims # <<>>
    /\ element' = ConstArray_get(array, indices)
    /\ pc' = "done"
    /\ UNCHANGED <<expr, cl, result, overloads, built, params, calls, evalres,
                   overflow_checks, array, indices, ord, trace, worker>>

\* the comparisons among the three instances: inst[x][y] is
\* ConstEvalFunctionInstance::cast_cmp of instance x and instance y; where
\* each has a first parameter, type[x][y] is ParameterType::cast_cmp of the
\* first parameter types, base[x][y] ParameterBaseType::cast_cmp of their
\* base types and cast[x][y] can_cast_into of these
Compare ==
    /\ pc = "ready"
    /\ overloads # <<>>
    /\ LET first(x) == overloads[x].prototype[1]
           Table(F(_, _)) ==
               IF \A x \in 1..3 : overloads[x].prototype # <<>>
               THEN [x \in 1..3 |-> [y \in 1..3 |-> F(first(x), first(y))]]
               ELSE <<>>
           type(s, t) == ParameterType_cast_cmp(s, t)
           base(s, t) == ParameterBaseType_cast_cmp(s.base_type, t.base_type)
           cast(s, t) == can_cast_into(s.base_type, t.base_type)
       IN ord' = [inst |-> [x \in 1..3 |-> [y \in 1..3 |->
                                cast_cmp(overloads[x], overloads[y])]],
                  type |-> Table(type),
                  base |-> Table(base),
                  cast |-> Table(cast)]
    /\ pc' = "done"
    /\ UNCHANGED <<expr, cl, result, overloads, built, params, calls, evalres,
                   overflow_checks, array, indices, element, trace, worker>>

SpecPure == PureInit /\ [][Get \/ Compare]_vars


(***************************************************************************)
(* Properties of ConstArray::get and of the comparators (under SpecPure)   *)
(***************************************************************************)

\* ConstArray::get has returned
GetDone == pc = "done" /\ array.dims # <<>>

\* the index tuple idx has one index per dimension of the array, each
\* strictly less than its dimension
InRange(idx) ==
    /\ Len(idx) = Len(array.dims)
    /\ \A i \in 1..Len(idx) : idx[i] < array.dims[i]

\* C17: get returns an element exactly when there is one index per
\* dimension and every index is strictly less than its dimension (an index
\* equal to its dimension fails in any position), and every other in-range
\* index tuple addresses a different element
C17_GetChecksEveryIndex ==
    GetDone
    => /\ element # NoVal <=> InRange(indices)
       /\ InRange(indices)
             => \A other \in [1..Len(indices) -> 0..3] :
                   (InRange(other) /\ other # indices)
                   => ConstArray_get(array, other) # element

\* C17 (witness): on an array of dimensions (2, 3), get((2, 0)) has returned
\* the element at flat offset 2, which is the element of (0, 1)
C17_IndexEqualToDimensionReturnsElement ==
    /\ GetDone
    /\ array.dims = <<2, 3>>
    /\ indices = <<2, 0>>
    /\ element = new_int(2)
    /\ ConstArray_get(array, <<0, 1>>) = element


\* the three instances have been compared
CompareDone == pc = "done" /\ overloads # <<>>

\* Ordering::reverse, and None for None
Reverse(o) ==
    CASE o = "Less" -> "Greater" [] o = "Greater" -> "Less" [] OTHER -> o

\* the base type of the first parameter of instance x
BaseOf(x) == overloads[x].prototype[1].base_type

\* C18: ParameterBaseType::cast_cmp(a, b) is Equal iff a = b, Less exactly
\* for int->uint, int->float, int->double, uint->float, uint->double and
\* float->double, Greater exactly for the reverses, and None for bool with
\* any other type; cast_cmp(b, a) is the reverse of cast_cmp(a, b);
\* can_cast_into(a, b) holds iff cast_cmp(a, b) is Less or Equal, and is
\* reflexive and transitive
C18_BaseTypeCastOrder ==
    (CompareDone /\ ord.base # <<>>)
    => LET Widening == {<<"Int", "UInt">>, <<"Int", "Float">>, <<"Int", "Double">>,
                        <<"UInt", "Float">>, <<"UInt", "Double">>, <<"Float", "Double">>}
       IN \A x \in 1..3, y \in 1..3 :
             /\ ord.base[x][y] = "Equal" <=> BaseOf(x) = BaseOf(y)
             /\ ord.base[x][y] = "Less" <=> <<BaseOf(x), BaseOf(y)>> \in Widening
             /\ ord.base[x][y] = "Greater" <=> <<BaseOf(y), BaseOf(x)>> \in Widening
             /\ ("Bool" \in {BaseOf(x), BaseOf(y)} /\ BaseOf(x) # BaseOf(y))
                   => ord.base[x][y] = "None"
             /\ ord.base[y][x] = Reverse(ord.base[x][y])
             /\ ord.cast[x][y] <=> ord.base[x][y] \in {"Less", "Equal"}
             /\ ord.cast[x][x]
             /\ \A z \in 1..3 : (ord.cast[x][y] /\ ord.cast[y][z]) => ord.cast[x][z]

\* C18 (witness): int, float and bool have been compared: int is Less than
\* float and casts into it, bool and float are incomparable
C18_IntBelowFloatBoolApart ==
    /\ CompareDone
    /\ ord.base # <<>>
    /\ <<BaseOf(1), BaseOf(2), BaseOf(3)>> = <<"Int", "Float", "Bool">>
    /\ ord.base[1][2] = "Less" /\ ord.cast[1][2]
    /\ ord.base[3][2] = "None" /\ ~ord.cast[3][2] /\ ~ord.cast[2][3]


\* the prototype of instance x, and its first parameter type
ProtoOf(x) == overloads[x].prototype
TypeOf(x) == overloads[x].prototype[1]

\* C19: ParameterType::cast_cmp is a total order: the swapped comparison is
\* the reverse, a type is Equal to itself and to no other, the order is
\* transitive, and a type whose base type casts into the different base
\* type of another type of the same shape is Less; the comparison of
\* instances is likewise reversible and transitive, and two instances with a
\* prototype compare by the number of parameters first and then by the
\* first parameter in which they differ
C19_PrototypeOrderIsTotal ==
    CompareDone
    => LET Le(t, x, y) == t[x][y] \in {"Less", "Equal"}
           Total(t) ==
               \A x \in 1..3, y \in 1..3 :
                  /\ t[x][y] \in {"Less", "Equal", "Greater"}
                  /\ t[y][x] = Reverse(t[x][y])
                  /\ t[x][x] = "Equal"
                  /\ \A z \in 1..3 :
                        /\ (Le(t, x, y) /\ Le(t, y, z)) => Le(t, x, z)
                        /\ (t[x][y] = "Less" /\ Le(t, y, z)) => t[x][z] = "Less"
           differ(x, y) == {i \in 1..Len(ProtoOf(x)) : ProtoOf(x)[i] # ProtoOf(y)[i]}
           at(x, y) == CHOOSE i \in differ(x, y) : \A j \in differ(x, y) : i <= j
       IN /\ ord.type # <<>>
                => /\ Total(ord.type)
                   /\ \A x \in 1..3, y \in 1..3 :
                         /\ ord.type[x][y] = "Equal" <=> TypeOf(x) = TypeOf(y)
                         /\ (/\ TypeOf(x).shape = TypeOf(y).shape
                             /\ TypeOf(x).base_type # TypeOf(y).base_type
                             /\ ord.cast[x][y])
                               => ord.type[x][y] = "Less"
          /\ Total(ord.inst)
          /\ \A x \in 1..3, y \in 1..3 :
                (overloads[x].typed /\ overloads[y].typed)
                => ord.inst[x][y] =
                      IF Len(ProtoOf(x)) < Len(ProtoOf(y)) THEN "Less"
                      ELSE IF Len(ProtoOf(x)) > Len(ProtoOf(y)) THEN "Greater"
                      ELSE IF differ(x, y) = {} THEN "Equal"
                      ELSE ParameterType_cast_cmp(ProtoOf(x)[at(x, y)], ProtoOf(y)[at(x, y)])

\* C19 (witness): (int, Scalar) has compared Less than (float, Scalar), the
\* instance of two parameters Greater than both instances of one, and two
\* instances that agree on the first parameter by the second
C19_FewerParametersFirst ==
    /\ CompareDone
    /\ ProtoOf(1) = <<ParameterType("Int", "Scalar"), ParameterType("Float", "Scalar")>>
    /\ ProtoOf(2) = <<ParameterType("Float", "Scalar")>>
    /\ ProtoOf(3) = <<ParameterType("Int", "Scalar"), ParameterType("Float", "Mat2")>>
    /\ ord.type[1][2] = "Less"
    /\ ord.inst[1][2] = "Greater"
    /\ ord.inst[1][3] = "Less"


\* the concrete shapes and the generic shapes of ParameterShape
ConcreteShapes == SeqRange(BaseTypeShapes)
GenericShapes == {"GenericSV", "GenericM", "GenericSVM"}

\* instances x and y have prototypes of one length that differ in exactly
\* one parameter, and there only in the shape, which is s for x and g for y
DifferOnlyByShape(x, y, s, g) ==
    /\ overloads[x].typed /\ overloads[y].typed
    /\ Len(ProtoOf(x)) = Len(ProtoOf(y))
    /\ \E i \in 1..Len(ProtoOf(x)) :
          /\ ProtoOf(x)[i].shape = s /\ ProtoOf(y)[i].shape = g
          /\ ProtoOf(x)[i].base_type = ProtoOf(y)[i].base_type
          /\ \A j \in 1..Len(ProtoOf(x)) : j # i => ProtoOf(x)[j] = ProtoOf(y)[j]

\* C20 (as stated): an instance whose prototype has a concrete shape in some
\* position compares Less than one that differs only by having a generic
\* shape there, for every concrete shape and every generic shape
C20_ConcreteBeforeEveryGeneric ==
    CompareDone
    => \A x \in 1..3, y \in 1..3 : \A s \in ConcreteShapes, g \in GenericShapes :
          DifferOnlyByShape(x, y, s, g) => ord.inst[x][y] = "Less"

\* C20 (amended): an instance whose prototype has a concrete shape in some
\* position compares Less than one that differs only by having a generic
\* shape there, except that a matrix shape compares Greater than GenericSV:
\* Scalar and the vector shapes precede all three generic shapes, the nine
\* matrix shapes precede GenericM and GenericSVM and follow GenericSV
C20_MatricesFollowGenericSV ==
    CompareDone
    => \A x \in 1..3, y \in 1..3 : \A s \in ConcreteShapes, g \in GenericShapes :
          DifferOnlyByShape(x, y, s, g)
          => ord.inst[x][y] = IF is_matrix(s) /\ g = "GenericSV" THEN "Greater" ELSE "Less"

\* C20 (witness): a prototype of one Mat2 parameter has compared Greater
\* than the one with GenericSV in its place, and Less than the ones with
\* GenericM and with GenericSVM
C20_Mat2AfterGenericSV ==
    /\ CompareDone
    /\ ProtoOf(1) = <<ParameterType("Float", "Mat2")>>
    /\ ProtoOf(2) = <<ParameterType("Float", "GenericSV")>>
    /\ ProtoOf(3) = <<ParameterType("Float", "GenericSVM")>>
    /\ ord.inst[1][2] = "Greater"
    /\ ord.inst[1][3] = "Less"


\* a unary operator of ops has been folded on the bound constant params[1]
UnaryDone(ops) == pc = "done" /\ expr.k = "Unary" /\ expr.op \in ops

\* C21: unary minus on an int or uint scalar or vector keeps the base type
\* and the shape, and each element r of the result is the negation of the
\* operand's element a modulo 2^32 (r + a is a multiple of 2^32, stated on
\* the halves of the words): -(4u) is 4294967292 (the word -4), -(-3) is 3,
\* and the minimum int negates to itself
C21_MinusWrapsIntegers ==
    (UnaryDone({"Minus"}) /\ params[1].ty \in {"Int", "UInt"})
    => /\ result.t = "Const"
       /\ result.v.ty = params[1].ty
       /\ result.v.shape = params[1].shape
       /\ Len(result.v.el) = Len(params[1].el)
       /\ \A i \in 1..Len(params[1].el) :
             LET a == params[1].el[i]
                 r == result.v.el[i]
             IN /\ r % 2 = a % 2
                /\ (r \div 2) + (a \div 2) + (a % 2) \in {0, I32Min}
                /\ a = 4 => r = -4
                /\ a = -3 => r = 3
                /\ a = I32Min => r = I32Min

\* C21 (witness): -(uvec2(4, 4)) has folded to the uvec2 of 4294967292
\* twice
C21_MinusUVec2 ==
    /\ UnaryDone({"Minus"})
    /\ params[1] = BaseVal("UInt", "Vec2", <<4, 4>>)
    /\ result = OkConst(BaseVal("UInt", "Vec2", <<-4, -4>>))


\* C22: unary plus and unary minus on a bool of any shape, and logical not
\* on anything but a scalar bool, fold to IllegalUnaryOperand of the
\* operator and the operand's type; unary plus on a non-bool value of any
\* shape folds to the operand unchanged
C22_UnaryOperandsRejected ==
    UnaryDone({"Add", "Minus", "Not"})
    => LET v == params[1]
           illegal == Err(IllegalUnaryOperand(expr.op, type_specifier(v)))
       IN /\ (expr.op \in {"Add", "Minus"} /\ v.ty = "Bool") => result = illegal
          /\ (expr.op = "Not" /\ ~(v.ty = "Bool" /\ v.shape = "Scalar")) => result = illegal
          /\ (expr.op = "Add" /\ v.ty # "Bool") => result = OkConst(v)

\* C22 (witness): logical not on bvec3(true, true, false) has folded to
\* IllegalUnaryOperand
C22_NotOnBVec3 ==
    /\ UnaryDone({"Not"})
    /\ params[1] = BaseVal("Bool", "Vec3", <<1, 1, 0>>)
    /\ result.t = "Err"
    /\ result.err[1] = "IllegalUnaryOperand"


\* C24: folding a unary or binary operator on constant base values never
\* aborts with an implicit-cast failure, and a float vec2 combined with a
\* float vec3 folds to IllegalBinaryOperand
C24_NoImplicitCastFailure ==
    (pc = "done" /\ expr.k \in {"Unary", "Binary"})
    => /\ result # Abort("Implicit cast failed")
       /\ (/\ expr.k = "Binary"
           /\ params[1].ty = "Float" /\ params[1].shape = "Vec2"
           /\ params[2].ty = "Float" /\ params[2].shape = "Vec3")
             => result = Err(IllegalBinaryOperand(expr.op, type_specifier(params[1]),
                                                  type_specifier(params[2])))

\* C24 (witness): vec2(1, 2) + vec3(1, 2, 3) has aborted with "Implicit
\* cast failed"
C24_Vec2PlusVec3Aborts ==
    /\ FoldDone({"Add"})
    /\ params = <<BaseVal("Float", "Vec2", <<1, 2>>), BaseVal("Float", "Vec3", <<1, 2, 3>>)>>
    /\ result = Abort("Implicit cast failed")


(***************************************************************************)
(* ScopedConstLookup: cl holds its scopes, innermost last; each scope is   *)
(* the HashMap as the sequence of its (name, value) entries                *)
(***************************************************************************)

\* the longest sequence of calls explored
MaxCalls == 5

\* ScopedConstLookup::new: one empty root scope
ScopedConstLookup_new ==
    /\ cl = <<<<>>>>
    /\ pc = "ready"
    /\ expr = NoExpr
    /\ result = NoResult
    /\ overloads = <<>>
    /\ built = FALSE
    /\ params = <<>>
    /\ calls = <<>>
    /\ evalres = NoVal
    /\ overflow_checks = FALSE
    /\ array = [dims |-> <<>>, data |-> <<>>]
    /\ indices = <<>>
    /\ element = NoVal
    /\ ord = <<>>
    /\ trace = <<>>
    /\ worker = <<>>

\* ScopedConstLookup::push_scope
push_scope ==
    /\ pc = "ready"
    /\ Len(trace) < MaxCalls
    /\ cl' = Append(cl, <<>>)
    /\ trace' = Append(trace, <<"push_scope">>)
    /\ UNCHANGED <<expr, result, pc, overloads, built, params, calls, evalres,
                   overflow_checks, array, indices, element, ord, worker>>

\* ScopedConstLookup::pop_scope: Vec::pop, which leaves an empty Vec empty
pop_scope ==
    /\ pc = "ready"
    /\ Len(trace) < MaxCalls
    /\ cl' = IF cl = <<>> THEN cl ELSE SubSeq(cl, 1, Len(cl) - 1)
    /\ trace' = Append(trace, <<"pop_scope">>)
    /\ UNCHANGED <<expr, result, pc, overloads, built, params, calls, evalres,
                   overflow_checks, array, indices, element, ord, worker>>

\* ScopedConstLookup::set_value: HashMap::insert into scopes.last_mut(),
\* whose unwrap panics when there is no scope
set_value ==
    /\ pc = "ready"
    /\ Len(trace) < MaxCalls
    /\ \E name \in {"a", "b"}, value \in {new_int(1), new_int(2)} :
          LET last == cl[Len(cl)]
              insert == IF \E i \in 1..Len(last) : last[i][1] = name
                        THEN [i \in 1..Len(last) |->
                                 IF last[i][1] = name THEN <<name, value>> ELSE last[i]]
                        ELSE Append(last, <<name, value>>)
          IN /\ trace' = Append(trace, <<"set_value", name, value>>)
             /\ IF cl = <<>>
                THEN pc' = "panicked" /\ cl' = cl
                ELSE pc' = pc /\ cl' = [cl EXCEPT ![Len(cl)] = insert]
    /\ UNCHANGED <<expr, result, overloads, built, params, calls, evalres,
                   overflow_checks, array, indices, element, ord, worker>>

SpecScope == ScopedConstLookup_new /\ [][push_scope \/ pop_scope \/ set_value]_vars

(***************************************************************************)
(* Properties of ScopedConstLookup (under SpecScope)                       *)
(***************************************************************************)

\* the scopes a sequence of calls leaves, each scope a function from the
\* names to the value set last in it (NoVal where none was): push_scope
\* opens an all-unset scope, pop_scope closes the innermost open scope,
\* set_value overrides the name in the innermost open scope
RECURSIVE ScopesAfter(_)
ScopesAfter(t) ==
    IF t = <<>> THEN <<[n \in {"a", "b"} |-> NoVal]>>
    ELSE LET before == ScopesAfter(SubSeq(t, 1, Len(t) - 1))
             call == t[Len(t)]
         IN CASE call[1] = "push_scope" -> Append(before, [n \in {"a", "b"} |-> NoVal])
              [] call[1] = "pop_scope" ->
                    IF before = <<>> THEN before ELSE SubSeq(before, 1, Len(before) - 1)
              [] call[1] = "set_value" ->
                    IF before = <<>> THEN before
                    ELSE [before EXCEPT ![Len(before)][call[2]] = call[3]]

\* C23: after any sequence of calls that has not aborted, lookup_const(name)
\* is the value set last for name in the innermost open scope in which name
\* was set, and nothing if no open scope has it: a popped scope's bindings
\* are gone and the outer bindings are as they were
C23_LookupFindsInnermostBinding ==
    pc = "ready"
    => \A name \in {"a", "b"} :
          LET open == ScopesAfter(trace)
              binding == {i \in 1..Len(open) : open[i][name] # NoVal}
              innermost == CHOOSE i \in binding : \A j \in binding : j <= i
          IN /\ Len(cl) = Len(open)
             /\ lookup_const(cl, name) =
                   IF binding = {} THEN NoVal ELSE open[innermost][name]

\* C23 (witness): a is set to 1 in the root scope, shadowed by 2 in a pushed
\* scope, and visible as 1 again after pop_scope
C23_OuterBindingReexposed ==
    /\ trace = <<<<"set_value", "a", new_int(1)>>, <<"push_scope">>,
                 <<"set_value", "a", new_int(2)>>, <<"pop_scope">>>>
    /\ lookup_const(cl, "a") = new_int(1)

\* C30: the scope stack is never empty and set_value never aborts
C30_RootScopeRemains == cl # <<>> /\ pc # "panicked"

\* C30 (witness): pop_scope on the new lookup has removed the root scope and
\* set_value has aborted on the empty stack
C30_SetValueAbortsAfterPop ==
    /\ trace = <<<<"pop_scope">>, <<"set_value", "a", new_int(1)>>>>
    /\ cl = <<>>
    /\ pc = "panicked"


(***************************************************************************)
(* run_worker (worker.rs): worker holds the locals of run_worker           *)
(* (current_pass, old_frames), the WorkerObjectPool, what the queue and    *)
(* the Share have been handed, and the fences the device has signalled;    *)
(* trace holds the tasks received                                          *)
(***************************************************************************)

\* the most tasks a behaviour hands to the worker
MaxTasks == 5

\* command_buffer_count of the allocation in WorkerObjectPool::get_buffer
BufferBatch == 8

\* the worker thread entering run_worker: WorkerObjectPool::new, no current
\* pass, no old frames.  unwind is the panic strategy of the build: whether
\* a panic drops the locals of run_worker or ends the process at once
WorkerInit ==
    /\ \E unwind \in BOOLEAN :
          worker = [status |-> "running", unwind |-> unwind,
                    current_pass |-> <<>>, old_frames |-> <<>>, passes |-> 0,
                    command_buffers |-> 0, allocated |-> 0,
                    fences |-> <<>>, created |-> 0,
                    submitted |-> <<>>, signalled |-> {}, released |-> <<>>]
    /\ trace = <<>>
    /\ pc = "ready"
    /\ expr = NoExpr
    /\ cl = <<<<>>>>
    /\ result = NoResult
    /\ overloads = <<>>
    /\ built = FALSE
    /\ params = <<>>
    /\ calls = <<>>
    /\ evalres = NoVal
    /\ overflow_checks = FALSE
    /\ array = [dims |-> <<>>, data |-> <<>>]
    /\ indices = <<>>
    /\ element = NoVal
    /\ ord = <<>>

\* the passes ps dropped in order: Drop for PassState hands the immediate
\* buffer back and decrements each recorded mesh, image and shader (logged
\* in released with the cause of the drop), then its fields are dropped,
\* of which Drop for PooledObjectProvider returns used_buffers to the pool
\* and nothing else
RECURSIVE DropPasses(_, _, _)
DropPasses(w, ps, cause) ==
    IF ps = <<>> THEN w
    ELSE LET p == Head(ps)
             log == [pass |-> p.id, cause |-> cause, submitted |-> p.end_fence # <<>>,
                     immediate_buffer |-> p.immediate_buffer,
                     static_meshes |-> p.static_meshes,
                     static_images |-> p.static_images,
                     shaders |-> p.shaders]
         IN DropPasses([w EXCEPT !.released = Append(@, log),
                                 !.command_buffers = @ + p.used_buffers],
                       Tail(ps), cause)

\* a match in which a StartPass received while a pass is active is ignored
TaskDropsSecondStart(w, task) ==
    LET panic == [w EXCEPT !.status = "panicked"]
        get_buffer(x) ==
            IF x.command_buffers = 0
            THEN [x EXCEPT !.command_buffers = BufferBatch - 1, !.allocated = @ + BufferBatch]
            ELSE [x EXCEPT !.command_buffers = @ - 1]
        pass == w.current_pass[1]
        with(p) == [w EXCEPT !.current_pass = <<p>>]
    IN CASE task[1] = "StartPass" ->
              IF w.current_pass # <<>> THEN w
              ELSE [get_buffer(get_buffer(w)) EXCEPT
                       !.passes = @ + 1,
                       !.current_pass =
                           <<[id |-> w.passes + 1, used_buffers |-> 2, used_fences |-> <<>>,
                              outputs |-> 0, immediate_buffer |-> <<>>,
                              static_meshes |-> <<>>, static_images |-> <<task[2]>>,
                              shaders |-> <<>>, end_fence |-> <<>>]>>]
         [] w.current_pass = <<>> -> panic
         [] task[1] = "EndPass" ->
              IF pass.immediate_buffer # <<>> \/ pass.end_fence # <<>> THEN panic
              ELSE LET fence == IF w.fences = <<>> THEN w.created + 1
                                ELSE w.fences[Len(w.fences)]
                       ended == [pass EXCEPT !.immediate_buffer = <<task[2]>>,
                                             !.end_fence = <<fence>>,
                                             !.used_fences = Append(@, fence)]
                   IN [w EXCEPT
                          !.created = IF w.fences = <<>> THEN @ + 1 ELSE @,
                          !.fences = IF w.fences = <<>> THEN @ ELSE SubSeq(@, 1, Len(@) - 1),
                          !.submitted = Append(@, [pass |-> pass.id, fence |-> fence]),
                          !.old_frames = Append(@, ended),
                          !.current_pass = <<>>]
         [] task[1] = "UseStaticMesh" ->
              with([pass EXCEPT !.static_meshes = Append(@, task[2])])
         [] task[1] = "UseStaticImage" ->
              with([pass EXCEPT !.static_images = Append(@, task[2])])
         [] task[1] = "UseShader" ->
              with([pass EXCEPT !.shaders = Append(@, task[2])])
         [] task[1] = "UseOutput" ->
              [(IF task[2] = 1 THEN get_buffer(w) ELSE w) EXCEPT
                  !.current_pass = <<[pass EXCEPT !.outputs = @ + 1,
                                                  !.used_buffers = @ + task[2]]>>]
         [] task[1] = "PipelineTask" -> w

\* a match whose EndPass moves the pass to old_frames without submitting it
TaskEndsWithoutSubmit(w, task) ==
    LET panic == [w EXCEPT !.status = "panicked"]
        get_buffer(x) ==
            IF x.command_buffers = 0
            THEN [x EXCEPT !.command_buffers = BufferBatch - 1, !.allocated = @ + BufferBatch]
            ELSE [x EXCEPT !.command_buffers = @ - 1]
        pass == w.current_pass[1]
        with(p) == [w EXCEPT !.current_pass = <<p>>]
    IN CASE task[1] = "StartPass" ->
              IF w.current_pass # <<>> THEN panic
              ELSE [get_buffer(get_buffer(w)) EXCEPT
                       !.passes = @ + 1,
                       !.current_pass =
                           <<[id |-> w.passes + 1, used_buffers |-> 2, used_fences |-> <<>>,
                              outputs |-> 0, immediate_buffer |-> <<>>,
                              static_meshes |-> <<>>, static_images |-> <<task[2]>>,
                              shaders |-> <<>>, end_fence |-> <<>>]>>]
         [] w.current_pass = <<>> -> panic
         [] task[1] = "EndPass" ->
              IF pass.immediate_buffer # <<>> \/ pass.end_fence # <<>> THEN panic
              ELSE LET fence == IF w.fences = <<>> THEN w.created + 1
                                ELSE w.fences[Len(w.fences)]
                       ended == [pass EXCEPT !.immediate_buffer = <<task[2]>>,
                                             !.end_fence = <<fence>>,
                                             !.used_fences = Append(@, fence)]
                   IN [w EXCEPT
                          !.old_frames = Append(@, [pass EXCEPT !.immediate_buffer = <<task[2]>>]),
                          !.current_pass = <<>>]
         [] task[1] = "UseStaticMesh" ->
              with([pass EXCEPT !.static_meshes = Append(@, task[2])])
         [] task[1] = "UseStaticImage" ->
              with([pass EXCEPT !.static_images = Append(@, task[2])])
         [] task[1] = "UseShader" ->
              with([pass EXCEPT !.shaders = Append(@, task[2])])
         [] task[1] = "UseOutput" ->
              [(IF task[2] = 1 THEN get_buffer(w) ELSE w) EXCEPT
                  !.current_pass = <<[pass EXCEPT !.outputs = @ + 1,
                                                  !.used_buffers = @ + task[2]]>>]
         [] task[1] = "PipelineTask" -> w

\* the match on the task in run_worker, with PassState::new,
\* use_immediate_buffer, use_output, process_task and submit; a task is
\* <<kind, argument>>: the placeholder image id of StartPass, the immediate
\* buffer of EndPass, the id of UseStaticMesh / UseStaticImage / UseShader,
\* the number of command buffers the output's init takes for UseOutput
Task(w, task) ==
    LET panic == [w EXCEPT !.status = "panicked"]
        get_buffer(x) ==
            IF x.command_buffers = 0
            THEN [x EXCEPT !.command_buffers = BufferBatch - 1, !.allocated = @ + BufferBatch]
            ELSE [x EXCEPT !.command_buffers = @ - 1]
        pass == w.current_pass[1]
        with(p) == [w EXCEPT !.current_pass = <<p>>]
    IN CASE task[1] = "StartPass" ->
              IF w.current_pass # <<>> THEN panic
              ELSE [get_buffer(get_buffer(w)) EXCEPT
                       !.passes = @ + 1,
                       !.current_pass =
                           <<[id |-> w.passes + 1, used_buffers |-> 2, used_fences |-> <<>>,
                              outputs |-> 0, immediate_buffer |-> <<>>,
                              static_meshes |-> <<>>, static_images |-> <<task[2]>>,
                              shaders |-> <<>>, end_fence |-> <<>>]>>]
         [] w.current_pass = <<>> -> panic
         [] task[1] = "EndPass" ->
              IF pass.immediate_buffer # <<>> \/ pass.end_fence # <<>> THEN panic
              ELSE LET fence == IF w.fences = <<>> THEN w.created + 1
                                ELSE w.fences[Len(w.fences)]
                       ended == [pass EXCEPT !.immediate_buffer = <<task[2]>>,
                                             !.end_fence = <<fence>>,
                                             !.used_fences = Append(@, fence)]
                   IN [w EXCEPT
                          !.created = IF w.fences = <<>> THEN @ + 1 ELSE @,
                          !.fences = IF w.fences = <<>> THEN @ ELSE SubSeq(@, 1, Len(@) - 1),
                          !.submitted = Append(@, [pass |-> pass.id, fence |-> fence]),
                          !.old_frames = Append(@, ended),
                          !.current_pass = <<>>]
         [] task[1] = "UseStaticMesh" ->
              with([pass EXCEPT !.static_meshes = Append(@, task[2])])
         [] task[1] = "UseStaticImage" ->
              with([pass EXCEPT !.static_images = Append(@, task[2])])
         [] task[1] = "UseShader" ->
              with([pass EXCEPT !.shaders = Append(@, task[2])])
         [] task[1] = "UseOutput" ->
              [(IF task[2] = 1 THEN get_buffer(w) ELSE w) EXCEPT
                  !.current_pass = <<[pass EXCEPT !.outputs = @ + 1,
                                                  !.used_buffers = @ + task[2]]>>]
         [] task[1] = "PipelineTask" -> w

\* a loop whose sweep of old_frames runs only when a task has arrived: on a
\* timeout the iteration leaves the old frames as they are
run_worker_sweeping_on_tasks_only ==
    /\ worker # <<>>
    /\ worker.status = "running"
    /\ LET done(p) == p.end_fence[1] \in worker.signalled
           kept(p) == ~done(p)
           swept == IF \E i \in 1..Len(worker.old_frames) :
                          worker.old_frames[i].end_fence = <<>>
                    THEN [worker EXCEPT !.status = "panicked"]
                    ELSE [DropPasses(worker, SelectSeq(worker.old_frames, done), "retain")
                             EXCEPT !.old_frames = SelectSeq(worker.old_frames, kept)]
           leave(w) == IF w.status = "panicked" /\ w.unwind
                       THEN [DropPasses(w, w.old_frames \o w.current_pass, "unwind")
                                EXCEPT !.old_frames = <<>>, !.current_pass = <<>>]
                       ELSE w
       IN \/ /\ worker' = worker
             /\ trace' = trace
          \/ /\ swept.status = "running"
             /\ Len(trace) < MaxTasks
             /\ \E task \in {<<"StartPass", 0>>, <<"EndPass", 1>>, <<"UseStaticMesh", 1>>,
                             <<"UseStaticImage", 1>>, <<"UseShader", 1>>,
                             <<"UseOutput", 0>>, <<"UseOutput", 1>>, <<"PipelineTask", 0>>} :
                   /\ worker' = leave(Task(swept, task))
                   /\ trace' = Append(trace, task)
    /\ UNCHANGED <<expr, cl, result, pc, overloads, built, params, calls, evalres,
                   overflow_checks, array, indices, element, ord>>

\* one iteration of the loop of run_worker: old_frames.retain drops the
\* passes whose is_complete answers true (it panics on a pass without end
\* fence), then either try_get_next_task_timeout times out or the task it
\* returns is matched.  A panic ends the worker; in a build that unwinds,
\* old_frames and current_pass are dropped on the way out.
run_worker ==
    /\ worker # <<>>
    /\ worker.status = "running"
    /\ LET done(p) == p.end_fence[1] \in worker.signalled
           kept(p) == ~done(p)
           swept == IF \E i \in 1..Len(worker.old_frames) :
                          worker.old_frames[i].end_fence = <<>>
                    THEN [worker EXCEPT !.status = "panicked"]
                    ELSE [DropPasses(worker, SelectSeq(worker.old_frames, done), "retain")
                             EXCEPT !.old_frames = SelectSeq(worker.old_frames, kept)]
           leave(w) == IF w.status = "panicked" /\ w.unwind
                       THEN [DropPasses(w, w.old_frames \o w.current_pass, "unwind")
                                EXCEPT !.old_frames = <<>>, !.current_pass = <<>>]
                       ELSE w
       IN \/ /\ worker' = leave(swept)
             /\ trace' = trace
          \/ /\ swept.status = "running"
             /\ Len(trace) < MaxTasks
             /\ \E task \in {<<"StartPass", 0>>, <<"EndPass", 1>>, <<"UseStaticMesh", 1>>,
                             <<"UseStaticImage", 1>>, <<"UseShader", 1>>,
                             <<"UseOutput", 0>>, <<"UseOutput", 1>>, <<"PipelineTask", 0>>} :
                   /\ worker' = leave(Task(swept, task))
                   /\ trace' = Append(trace, task)
    /\ UNCHANGED <<expr, cl, result, pc, overloads, built, params, calls, evalres,
                   overflow_checks, array, indices, element, ord>>

\* the device completes a submission: the fence handed to queue.submit_2
\* becomes signalled
SignalFence ==
    /\ worker # <<>>
    /\ \E i \in 1..Len(worker.submitted) :
          /\ worker.submitted[i].fence \notin worker.signalled
          /\ worker' = [worker EXCEPT !.signalled = @ \cup {worker.submitted[i].fence}]
    /\ UNCHANGED <<expr, cl, result, pc, overloads, built, params, calls, evalres,
                   overflow_checks, array, indices, element, ord, trace>>

SpecWorker == WorkerInit /\ [][run_worker \/ SignalFence]_vars

\* the worker loop keeps being scheduled and every submitted pass is
\* eventually completed by the device
SpecWorkerLive ==
    /\ WorkerInit
    /\ [][run_worker \/ SignalFence]_vars
    /\ WF_vars(run_worker)
    /\ WF_vars(SignalFence)


(***************************************************************************)
(* Properties of the worker (under SpecWorker and SpecWorkerLive)          *)
(***************************************************************************)

\* what the protocol makes of a sequence of tasks: "active" or "none" as a
\* pass is open or not after it, "abort" once a StartPass came while a pass
\* was open or any other task while none was
RECURSIVE ProtocolAfter(_)
ProtocolAfter(t) ==
    IF t = <<>> THEN "none"
    ELSE LET before == ProtocolAfter(SubSeq(t, 1, Len(t) - 1))
             kind == t[Len(t)][1]
         IN IF before = "abort" THEN "abort"
            ELSE IF kind = "StartPass" THEN (IF before = "active" THEN "abort" ELSE "active")
            ELSE IF before = "none" THEN "abort"
            ELSE IF kind = "EndPass" THEN "none" ELSE "active"

\* the position in trace of the StartPass that opened pass i
StartOf(i) ==
    CHOOSE k \in 1..Len(trace) :
        /\ trace[k][1] = "StartPass"
        /\ Cardinality({j \in 1..k : trace[j][1] = "StartPass"}) = i

\* the arguments, in order, of the tasks of one kind received while pass i
\* was open
UsesOf(i, kind) ==
    LET open(k) == /\ k > StartOf(i)
                   /\ \A j \in (StartOf(i) + 1)..k : trace[j][1] \notin {"StartPass", "EndPass"}
        hit(k) == open(k) /\ trace[k][1] = kind
        at == SelectSeq([k \in 1..Len(trace) |-> k], hit)
    IN [j \in 1..Len(at) |-> trace[at[j]][2]]

\* the passes the worker holds: the current pass and the old frames
HeldPasses == worker.current_pass \o worker.old_frames

\* C25: at most one pass is active; the worker has aborted exactly when the
\* tasks received contain a StartPass while a pass was active or another
\* task while none was; otherwise a pass is active exactly when the last
\* StartPass has had no EndPass, and every pass held has recorded exactly
\* the tasks received while it was active, so none was dropped or applied
\* to an ended pass
C25_OnePassAndProtocolAborts ==
    worker # <<>>
    => /\ Len(worker.current_pass) <= 1
       /\ (worker.status = "panicked") <=> (ProtocolAfter(trace) = "abort")
       /\ worker.status = "running"
             => /\ (worker.current_pass # <<>>) <=> (ProtocolAfter(trace) = "active")
                /\ (trace # <<>> /\ trace[Len(trace)][1] = "EndPass")
                      => worker.current_pass = <<>>
       /\ \A i \in 1..Len(HeldPasses) :
             LET p == HeldPasses[i]
             IN /\ p.static_meshes = UsesOf(p.id, "UseStaticMesh")
                /\ p.static_images = <<trace[StartOf(p.id)][2]>> \o UsesOf(p.id, "UseStaticImage")
                /\ p.shaders = UsesOf(p.id, "UseShader")
                /\ p.outputs = Len(UsesOf(p.id, "UseOutput"))

\* C25 (witness): a second StartPass has arrived while the first pass, with
\* one mesh recorded, was active, and the worker has aborted
C25_SecondStartPassAborts ==
    /\ worker # <<>>
    /\ trace = <<<<"StartPass", 0>>, <<"UseStaticMesh", 1>>, <<"StartPass", 0>>>>
    /\ worker.status = "panicked"


\* C26: every release logged for a pass was made by the sweep that observed
\* the pass's end fence complete, after the pass was submitted; it hands
\* back the one immediate buffer and decrements exactly the meshes, the
\* images (the placeholder first) and the shaders recorded for the pass, and
\* no pass is released twice
C26_ReleasedOnceAfterCompletion ==
    worker # <<>>
    => \A i \in 1..Len(worker.released) :
          LET r == worker.released[i]
          IN /\ r.cause = "retain"
             /\ r.submitted
             /\ \E k \in 1..Len(worker.submitted) :
                   /\ worker.submitted[k].pass = r.pass
                   /\ worker.submitted[k].fence \in worker.signalled
             /\ Len(r.immediate_buffer) = 1
             /\ r.static_meshes = UsesOf(r.pass, "UseStaticMesh")
             /\ r.static_images = <<trace[StartOf(r.pass)][2]>> \o UsesOf(r.pass, "UseStaticImage")
             /\ r.shaders = UsesOf(r.pass, "UseShader")
             /\ \A j \in 1..Len(worker.released) : j # i => worker.released[j].pass # r.pass

\* C26 (witness): a second StartPass has aborted the worker of a build that
\* unwinds, and the active pass, never submitted, has released its mesh and
\* its placeholder image
C26_UnwindReleasesUnsubmittedPass ==
    /\ worker # <<>>
    /\ trace = <<<<"StartPass", 0>>, <<"UseStaticMesh", 1>>, <<"StartPass", 0>>>>
    /\ worker.status = "panicked"
    /\ worker.submitted = <<>>
    /\ Len(worker.released) = 1
    /\ worker.released[1].static_meshes = <<1>>
    /\ worker.released[1].static_images = <<0>>
    /\ ~worker.released[1].submitted


\* C27: once no pass is active and every ended pass has completed and been
\* dropped, the pool holds every command buffer it allocated and every fence
\* it created
C27_PoolWholeWhenQuiescent ==
    (/\ worker # <<>>
     /\ worker.status = "running"
     /\ worker.current_pass = <<>>
     /\ worker.old_frames = <<>>)
    => /\ worker.command_buffers = worker.allocated
       /\ Len(worker.fences) = worker.created

\* C27 (witness): two passes have ended, completed and been dropped one
\* after the other; every command buffer is back in the pool, and the pool
\* has created two fences and holds none
C27_FencesNeverReturned ==
    /\ worker # <<>>
    /\ worker.status = "running"
    /\ worker.current_pass = <<>>
    /\ worker.old_frames = <<>>
    /\ Len(worker.released) = 2
    /\ worker.command_buffers = worker.allocated
    /\ worker.allocated = BufferBatch
    /\ worker.created = 2
    /\ worker.fences = <<>>


\* the number of EndPass tasks received while a pass was active
EndedPasses ==
    Cardinality({k \in 1..Len(trace) :
                    /\ trace[k][1] = "EndPass"
                    /\ ProtocolAfter(SubSeq(trace, 1, k)) = "none"})

\* C29: the queue has been handed each ended pass once, in order, and no
\* other pass; every pass in old_frames is one of them, carries the fence
\* of its submission and exactly one immediate buffer; the active pass has
\* neither fence nor immediate buffer and has not been submitted; and the
\* worker aborts only on a task that breaks the protocol, never on the
\* assertion of submit, on use_immediate_buffer or on is_complete
C29_SubmittedOnceAtEndPass ==
    worker # <<>>
    => /\ Len(worker.submitted) = EndedPasses
       /\ \A k \in 1..Len(worker.submitted) : worker.submitted[k].pass = k
       /\ \A i \in 1..Len(worker.old_frames) :
             LET p == worker.old_frames[i]
             IN /\ p.id \in 1..Len(worker.submitted)
                /\ p.end_fence = <<worker.submitted[p.id].fence>>
                /\ Len(p.immediate_buffer) = 1
       /\ \A i \in 1..Len(worker.current_pass) :
             LET p == worker.current_pass[i]
             IN /\ p.id = Len(worker.submitted) + 1
                /\ p.end_fence = <<>>
                /\ p.immediate_buffer = <<>>
       /\ worker.status = "panicked" => ProtocolAfter(trace) = "abort"

\* C29 (witness): two passes have ended and neither has completed; both are
\* in old_frames with their own fence and immediate buffer, and a third
\* pass is active
C29_TwoPassesInFlight ==
    /\ worker # <<>>
    /\ worker.status = "running"
    /\ Len(worker.old_frames) = 2
    /\ Len(worker.submitted) = 2
    /\ worker.old_frames[1].end_fence # worker.old_frames[2].end_fence
    /\ worker.old_frames[2].immediate_buffer = <<1>>
    /\ worker.signalled = {}
    /\ Len(worker.current_pass) = 1


\* pass i is in old_frames
InOldFrames(i) ==
    /\ worker # <<>>
    /\ \E k \in 1..Len(worker.old_frames) : worker.old_frames[k].id = i

\* pass i has been dropped and is no longer in old_frames
Dropped(i) ==
    /\ worker # <<>>
    /\ ~InOldFrames(i)
    /\ \E k \in 1..Len(worker.released) : worker.released[k].pass = i

\* C28: with every submitted fence eventually signalled and the loop kept
\* scheduled, every pass that EndPass has put into old_frames is eventually
\* removed from old_frames and dropped, also when no further task arrives,
\* for as long as the worker has not aborted
C28_EndedPassesEventuallyDropped ==
    \A i \in 1..MaxTasks :
        InOldFrames(i) ~> (Dropped(i) \/ worker.status = "panicked")

\* C28 (witness): after StartPass and EndPass no further task has arrived,
\* the fence has been signalled, and the sweep of an iteration that timed
\* out has dropped the pass
C28_DroppedOnTimeout ==
    /\ worker # <<>>
    /\ trace = <<<<"StartPass", 0>>, <<"EndPass", 1>>>>
    /\ worker.status = "running"
    /\ worker.old_frames = <<>>
    /\ Len(worker.released) = 1
    /\ worker.released[1].pass = 1
    /\ worker.released[1].cause = "retain"

====
